---- MODULE Spec2Model ----
(***************************************************************************)
(* A model of the common-schema engine: subschema nodes, the core schema   *)
(* types' shallow validate / normalize / checkTypeMatch, the Validator and *)
(* Normalizer handler sets, Schema's traverse / transform / transformAsync *)
(* engines and the or-type's alternative matching.                         *)
(*                                                                         *)
(* JavaScript values are tagged records; objects are sequences of          *)
(* [k, v] entries in insertion order (Object.keys order), arrays are       *)
(* sequences.  Subschema nodes are records that carry every parameter the  *)
(* modelled types read, with Undef standing for an absent parameter.       *)
(***************************************************************************)
EXTENDS Integers, Sequences, FiniteSets, TLC

(***************************************************************************)
(* Bounds of the model.                                                    *)
(***************************************************************************)
\* numbers range over 0..MaxNum
MaxNum == 2
\* arrays enumerated as inputs have at most MaxLen elements
MaxLen == 2
\* the most alternatives an or schema of the universe lists
MaxAlts == 2

(***************************************************************************)
(* JavaScript values.                                                      *)
(***************************************************************************)
Undef == [t |-> "undefined"]
Null == [t |-> "null"]
Bool(b) == [t |-> "boolean", b |-> b]
Num(n) == [t |-> "number", n |-> n]
Str(s) == [t |-> "string", s |-> s]
Obj(entries) == [t |-> "object", e |-> entries]
Arr(elems) == [t |-> "array", a |-> elems]
KV(k, v) == [k |-> k, v |-> v]

IsMissing(v) == v = Undef \/ v = Null
IsPlainObject(v) == v.t = "object"
IsArray(v) == v.t = "array"
\* typeof v === 'object' && v
IsObjectLike(v) == v.t = "object" \/ v.t = "array"
IsScalar(v) == v.t \in {"undefined", "null", "boolean", "number", "string"}
\* JavaScript truthiness: !!v
Truthy(v) ==
    CASE v.t = "undefined" -> FALSE
      [] v.t = "null" -> FALSE
      [] v.t = "boolean" -> v.b
      [] v.t = "number" -> v.n # 0
      [] v.t = "string" -> v.s # ""
      [] OTHER -> TRUE

\* decimal digits of the numbers of the model
Digits == <<"0", "1", "2", "3", "4", "5", "6", "7", "8", "9">>
\* String(n)
NumStr(n) == IF n < 10 THEN Digits[n + 1] ELSE Digits[(n \div 10) + 1] \o Digits[(n % 10) + 1]
\* the numeric strings the model can form
IsNumericStr(s) == \E n \in 0..MaxNum : NumStr(n) = s
\* parseFloat(s) for a numeric string
ParseNum(s) == CHOOSE n \in 0..MaxNum : NumStr(n) = s

RECURSIVE JoinStr(_, _)
RECURSIVE StringOf(_)
\* '' + v : the default string conversion
StringOf(v) ==
    CASE v.t = "undefined" -> "undefined"
      [] v.t = "null" -> "null"
      [] v.t = "boolean" -> (IF v.b THEN "true" ELSE "false")
      [] v.t = "number" -> NumStr(v.n)
      [] v.t = "string" -> v.s
      [] v.t = "array" -> JoinStr(v.a, ",")
      [] OTHER -> "[object Object]"
\* Array.prototype.join: null and undefined elements become ''
JoinStr(elems, sep) ==
    IF elems = <<>> THEN ""
    ELSE LET h == IF IsMissing(Head(elems)) THEN "" ELSE StringOf(Head(elems))
         IN IF Len(elems) = 1 THEN h ELSE h \o sep \o JoinStr(Tail(elems), sep)

\* the strings that stand for text values in the model
StrVocab == {"", "a", "1", "yes", "YES"}
\* String.prototype.toLowerCase on the vocabulary
ToLowerCase(s) == IF s = "YES" THEN "yes" ELSE s
\* JSON.stringify of a string
JSONQuote(s) == "\"" \o s \o "\""
\* JSON.parse(s): [ok, v]; numbers, booleans, null and quoted strings parse
JSONParse(s) ==
    IF IsNumericStr(s) THEN [ok |-> TRUE, v |-> Num(ParseNum(s))]
    ELSE IF s = "true" THEN [ok |-> TRUE, v |-> Bool(TRUE)]
    ELSE IF s = "false" THEN [ok |-> TRUE, v |-> Bool(FALSE)]
    ELSE IF s = "null" THEN [ok |-> TRUE, v |-> Null]
    ELSE IF \E q \in StrVocab : JSONQuote(q) = s
         THEN [ok |-> TRUE, v |-> Str(CHOOSE q \in StrVocab : JSONQuote(q) = s)]
    ELSE [ok |-> FALSE, v |-> Undef]

(***************************************************************************)
(* Container values: own keys, reads and writes.                           *)
(***************************************************************************)
\* /^[0-9]+$/ on the index strings of the model's arrays, and parseInt
IsIndexStr(k) == \E i \in 1..Len(Digits) : Digits[i] = k
ParseIndex(k) == (CHOOSE i \in 1..Len(Digits) : Digits[i] = k) - 1
RECURSIVE IndexKeys(_)
\* the index keys '0' .. String(n-1)
IndexKeys(n) == IF n = 0 THEN <<>> ELSE Append(IndexKeys(n - 1), NumStr(n - 1))
\* Object.keys(v) for an object or an array
ObjectKeys(v) ==
    IF v.t = "object" THEN [i \in 1..Len(v.e) |-> v.e[i].k]
    ELSE IF v.t = "array" THEN IndexKeys(Len(v.a))
    ELSE <<>>
HasKey(v, k) ==
    IF v.t = "object" THEN \E i \in 1..Len(v.e) : v.e[i].k = k
    ELSE IF v.t = "array" THEN IsIndexStr(k) /\ ParseIndex(k) < Len(v.a)
    ELSE FALSE
\* v[k]
GetProp(v, k) ==
    IF ~HasKey(v, k) THEN Undef
    ELSE IF v.t = "object" THEN v.e[CHOOSE i \in 1..Len(v.e) : v.e[i].k = k].v
    ELSE v.a[ParseIndex(k) + 1]
\* v[k] = x : an existing key keeps its place, a new key is appended; the holes an
\* index past the end leaves in an array read as undefined
SetProp(v, k, x) ==
    IF v.t = "object"
    THEN IF HasKey(v, k)
         THEN Obj([i \in 1..Len(v.e) |-> IF v.e[i].k = k THEN KV(k, x) ELSE v.e[i]])
         ELSE Obj(Append(v.e, KV(k, x)))
    ELSE IF v.t = "array" /\ IsIndexStr(k)
    THEN IF ParseIndex(k) < Len(v.a)
         THEN Arr([v.a EXCEPT ![ParseIndex(k) + 1] = x])
         ELSE Arr(v.a \o [i \in 1..(ParseIndex(k) - Len(v.a)) |-> Undef] \o <<x>>)
    ELSE v
RECURSIVE DropKey(_, _)
DropKey(entries, k) ==
    IF entries = <<>> THEN <<>>
    ELSE IF Head(entries).k = k THEN DropKey(Tail(entries), k)
    ELSE <<Head(entries)>> \o DropKey(Tail(entries), k)
\* delete v[k]
DelProp(v, k) ==
    IF v.t = "object" THEN Obj(DropKey(v.e, k))
    ELSE IF HasKey(v, k) THEN Arr([v.a EXCEPT ![ParseIndex(k) + 1] = Undef])
    ELSE v

\* field ? (field + '.' + subfield) : subfield
JoinPath(field, subfield) == IF field # "" THEN field \o "." \o subfield ELSE subfield
(***************************************************************************)
(* Subschema nodes.                                                        *)
(***************************************************************************)
\* getFieldSubschema's undefined: no subschema for a field
NoSchema == [type |-> "none"]
\* a canonical node of the given type with no parameter set
Node(type) ==
    [type |-> type, required |-> FALSE, default |-> Undef, enum |-> Undef,
     properties |-> <<>>, elements |-> NoSchema, values |-> NoSchema,
     keyField |-> Undef, keySchemas |-> <<>>, alternatives |-> <<>>,
     min |-> Undef, max |-> Undef, minLength |-> Undef, maxLength |-> Undef,
     serializeMixed |-> FALSE, validate |-> "", normalize |-> ""]
Prop(k, s) == [k |-> k, s |-> s]
ObjectNode(props) == [Node("object") EXCEPT !.properties = props]
ArrayNode(elements) == [Node("array") EXCEPT !.elements = elements]
ArraySetNode(elements, keyField) ==
    [Node("arrayset") EXCEPT !.elements = elements, !.keyField = keyField]
MapNode(values) == [Node("map") EXCEPT !.values = values]
OrNode(alts) == [Node("or") EXCEPT !.alternatives = alts]

\* operation options (ValidateOptions / NormalizeOptions); all flags default off
DefaultOptions ==
    [allowUnknownFields |-> FALSE, allowMissingFields |-> FALSE,
     removeUnknownFields |-> FALSE, ignoreDefaults |-> FALSE, serialize |-> FALSE]

\* SchemaType constructor flags: isContainer, containerSchemaKeysMatchValueKeys
DefaultIsContainer(type) == type \in {"object", "array", "arrayset", "map", "or"}
\* a variant in which no container declares its keys: only the keys the value has
\* are visited
SchemaKeysNeverVisited(type) == FALSE
ContainerSchemaKeysMatchValueKeys(type) == type = "object"

\* the outcome of a shallow normalize: a value, or a FieldError code
NOk(v) == [ok |-> TRUE, v |-> v, code |-> ""]
NErr(code) == [ok |-> FALSE, v |-> Undef, code |-> code]

(***************************************************************************)
(* Array-set element keys.                                                 *)
(***************************************************************************)
\* encodeValue of a scalar or of a list of scalars; undefined has no key
EncodeValue(v) ==
    IF v = Undef THEN Undef
    ELSE IF v.t = "array" THEN Str(JoinStr([i \in 1..Len(v.a) |->
             IF v.a[i] = Undef THEN Undef ELSE Str(StringOf(v.a[i]))], "$"))
    ELSE IF IsScalar(v) THEN Str(StringOf(v))
    ELSE Str("#" \o JoinStr([i \in 1..Len(v.e) |-> Str(v.e[i].k \o ":" \o StringOf(v.e[i].v))], ";"))
\* _getElementKey: Str(key), or Undef when the element has no key
GetElementKey(el, subschema) ==
    IF subschema.keyField # Undef
    THEN EncodeValue(IF IsObjectLike(el) THEN GetProp(el, subschema.keyField.s) ELSE Undef)
    ELSE EncodeValue(el)
\* the key as it appears in a field path: field + '.' + key
KeyText(key) == StringOf(key)

(***************************************************************************)
(* Shallow validate / normalize of each type.                              *)
(***************************************************************************)
RECURSIVE RemoveArrayUndefinedValues(_)
\* removeArrayUndefinedValues: compact in place, order kept
RemoveArrayUndefinedValues(elems) ==
    IF elems = <<>> THEN <<>>
    ELSE IF Head(elems) = Undef THEN RemoveArrayUndefinedValues(Tail(elems))
    ELSE <<Head(elems)>> \o RemoveArrayUndefinedValues(Tail(elems))

\* SchemaTypeArray.validate
ArrayValidate(value) ==
    IF ~IsArray(value) THEN "invalid_type"
    ELSE IF \E i \in 1..Len(value.a) : value.a[i] = Undef THEN "invalid"
    ELSE ""
\* SchemaTypeArray.normalize
ArrayNormalize(value) ==
    LET v == IF IsArray(value) THEN Arr(RemoveArrayUndefinedValues(value.a)) ELSE value
    IN IF ArrayValidate(v) = "" THEN NOk(v) ELSE NErr(ArrayValidate(v))

\* SchemaTypeArraySet.validate
ArraySetValidate(value, subschema) ==
    IF ~IsArray(value) THEN "invalid_type"
    ELSE IF \E i \in 1..Len(value.a) :
                value.a[i] = Undef \/ GetElementKey(value.a[i], subschema) = Undef
         THEN "invalid"
    ELSE ""
\* SchemaTypeArraySet.normalize: a later element with a key already seen is dropped
ArraySetNormalize(value, subschema) ==
    LET v == IF IsArray(value)
             THEN Arr(RemoveArrayUndefinedValues([i \in 1..Len(value.a) |->
                      IF \E j \in 1..(i - 1) :
                            GetElementKey(value.a[j], subschema) = GetElementKey(value.a[i], subschema)
                      THEN Undef ELSE value.a[i]]))
             ELSE value
    IN IF ArraySetValidate(v, subschema) = "" THEN NOk(v) ELSE NErr(ArraySetValidate(v, subschema))

\* SchemaTypeObject.validate and SchemaTypeMap.validate
ObjectValidate(value) == IF IsPlainObject(value) THEN "" ELSE "invalid_type"

\* SchemaTypeString.normalize
StringNormalize(value, subschema) ==
    LET strValue == StringOf(value)
    IN IF subschema.maxLength # Undef /\ Len(strValue) > subschema.maxLength.n THEN NErr("too_long")
       ELSE IF subschema.minLength # Undef /\ Len(strValue) < subschema.minLength.n THEN NErr("too_short")
       ELSE NOk(Str(strValue))
\* SchemaTypeString.validate
StringValidate(value, subschema) ==
    IF value.t # "string" THEN "invalid_type" ELSE StringNormalize(value, subschema).code

\* SchemaTypeNumber.normalize
NumberNormalize(value, subschema) ==
    LET conv == IF value.t = "number" THEN NOk(value)
                ELSE IF value.t = "string"
                THEN IF value.s = "" \/ ~IsNumericStr(value.s) THEN NErr("invalid_type")
                     ELSE NOk(Num(ParseNum(value.s)))
                ELSE NErr("invalid_type")
    IN IF ~conv.ok THEN conv
       ELSE IF subschema.max # Undef /\ conv.v.n > subschema.max.n THEN NErr("too_large")
       ELSE IF subschema.min # Undef /\ conv.v.n < subschema.min.n THEN NErr("too_small")
       ELSE conv
\* SchemaTypeNumber.validate
NumberValidate(value, subschema) ==
    IF value.t # "number" THEN "invalid_type" ELSE NumberNormalize(value, subschema).code

\* SchemaTypeBoolean's vocabularies
TrueStringSet == {"true", "t", "y", "yes", "1", "on", "totallydude"}
FalseStringSet == {"false", "f", "n", "no", "0", "off", "definitelynot"}
\* SchemaTypeBoolean.normalize
BooleanNormalize(value) ==
    IF value.t = "boolean" THEN NOk(value)
    ELSE IF value = Num(0) \/ value = Num(1) THEN NOk(Bool(value = Num(1)))
    ELSE IF value.t = "string" /\ ToLowerCase(value.s) \in TrueStringSet THEN NOk(Bool(TRUE))
    ELSE IF value.t = "string" /\ ToLowerCase(value.s) \in FalseStringSet THEN NOk(Bool(FALSE))
    ELSE NErr("invalid_type")
\* SchemaTypeBoolean.validate
BooleanValidate(value) ==
    IF value.t # "boolean" THEN "invalid_type" ELSE BooleanNormalize(value).code

\* SchemaTypeMixed.normalize
MixedNormalize(value, subschema, options) ==
    IF subschema.serializeMixed
    THEN IF options.serialize
         THEN IF value.t = "string" THEN NErr("invalid_type")
              ELSE NOk(Str(StringOf(value)))
         ELSE IF value.t = "string"
              THEN IF JSONParse(value.s).ok THEN NOk(JSONParse(value.s).v) ELSE NErr("invalid_format")
              ELSE NOk(value)
    ELSE NOk(value)
\* SchemaTypePrimitive.validate as inherited by mixed: normalize, result dropped
MixedValidate(value, subschema, options) == MixedNormalize(value, subschema, options).code

\* validatePosition: a [ long, lat ] pair of numbers (every number of the model is in
\* range)
ValidatePosition(value) ==
    IF IsArray(value) /\ Len(value.a) = 2 /\ value.a[1].t = "number" /\ value.a[2].t = "number"
    THEN "" ELSE "invalid_type"
\* the array normalizePosition changes in place, one slot after the other, as it is
\* left when the call returns or throws: first and second are what numberType.normalize
\* makes of the two slots
PositionLeft(value, first, second) ==
    IF ~first.ok THEN value
    ELSE IF ~second.ok THEN Arr(<<first.v, value.a[2]>>)
    ELSE Arr(<<first.v, second.v>>)
\* the caller's value after normalizePosition (no string of the vocabulary holds a
\* comma, so a string splits into one part, and the split leaves the caller's string)
NormalizePositionInPlace(value) ==
    IF ~(IsArray(value) /\ Len(value.a) = 2) THEN value
    ELSE PositionLeft(value, NumberNormalize(value.a[1], Node("number")),
                      NumberNormalize(value.a[2], Node("number")))
\* the outcome of normalizePosition, given the array as it leaves it
PositionOutcome(left) ==
    IF ValidatePosition(left) = "" THEN NOk(left) ELSE NErr("invalid_type")
\* normalizePosition
NormalizePosition(value) == PositionOutcome(NormalizePositionInPlace(value))
\* subschemaType.validate(value, subschema, field, options, schema): '' or a FieldError code
TypeValidate(subschema, value, options) ==
    CASE subschema.type = "object" -> ObjectValidate(value)
      [] subschema.type = "map" -> ObjectValidate(value)
      [] subschema.type = "array" -> ArrayValidate(value)
      [] subschema.type = "arrayset" -> ArraySetValidate(value, subschema)
      [] subschema.type = "string" -> StringValidate(value, subschema)
      [] subschema.type = "number" -> NumberValidate(value, subschema)
      [] subschema.type = "boolean" -> BooleanValidate(value)
      [] subschema.type = "mixed" -> MixedValidate(value, subschema, options)
      [] subschema.type = "geopoint" -> ValidatePosition(value)
      [] OTHER -> ""
\* subschemaType.normalize(value, subschema, field, options, schema)
TypeNormalize(subschema, value, options) ==
    CASE subschema.type = "object" -> (IF ObjectValidate(value) = "" THEN NOk(value) ELSE NErr("invalid_type"))
      [] subschema.type = "map" -> (IF ObjectValidate(value) = "" THEN NOk(value) ELSE NErr("invalid_type"))
      [] subschema.type = "array" -> ArrayNormalize(value)
      [] subschema.type = "arrayset" -> ArraySetNormalize(value, subschema)
      [] subschema.type = "string" -> StringNormalize(value, subschema)
      [] subschema.type = "number" -> NumberNormalize(value, subschema)
      [] subschema.type = "boolean" -> BooleanNormalize(value)
      [] subschema.type = "mixed" -> MixedNormalize(value, subschema, options)
      [] subschema.type = "geopoint" -> NormalizePosition(value)
      [] OTHER -> NOk(value)
\* checkEnum: validValues.indexOf(value) !== -1 (strict equality; objects never match)
CheckEnum(value, validValues) ==
    IsScalar(value) /\ \E i \in 1..Len(validValues.a) : validValues.a[i] = value
(***************************************************************************)
(* Handler sets.  A handler set is data: the Validator, the Normalizer, or *)
(* a caller's handlers given by what they return at each field path.       *)
(* The traversal threads an accumulator: the FieldErrors added so far, the *)
(* log of handler invocations, and an exception once one propagates.       *)
(***************************************************************************)
EmptyAcc == [errs |-> <<>>, log |-> <<>>, exc |-> "", sets |-> <<>>]
FieldError(code, field) == [code |-> code, field |-> field]
AddFieldError(acc, code, field) == [acc EXCEPT !.errs = Append(@, FieldError(code, field))]
\* one handler invocation: which handler, and the path, value and subschema it was
\* given (onUnknownField gets no subschema, onSubschema no value)
Invocation(h, field, value, subschema) ==
    [h |-> h, field |-> field, value |-> value, subschema |-> subschema]
Logged(acc, h, field, value, subschema) ==
    [acc EXCEPT !.log = Append(@, Invocation(h, field, value, subschema))]
Raise(acc, exc) == [acc EXCEPT !.exc = exc]
\* one call of a container type's setValueSubfield made by transform: the container's
\* path, the subfield and the value set, and how many handler invocations came before
SetterCall(field, subfield, fieldValue, at) ==
    [field |-> field, k |-> subfield, v |-> fieldValue, at |-> at]
\* (none once an exception is on its way up)
Set(acc, field, subfield, fieldValue) ==
    IF acc.exc # "" THEN acc
    ELSE [acc EXCEPT !.sets = Append(@, SetterCall(field, subfield, fieldValue, Len(acc.log)))]

ValidatorHandlers(options) ==
    [kind |-> "validator", options |-> options,
     onField |-> TRUE, onUnknownField |-> TRUE, postField |-> FALSE, touch |-> <<>>]
NormalizerHandlers(options) ==
    [kind |-> "normalizer", options |-> options,
     onField |-> TRUE, onUnknownField |-> TRUE, postField |-> FALSE, touch |-> <<>>]

\* what a caller's handler returns at a path: on / post / unknown map paths to
\* behaviours, every other path gets the default behaviour "keep"
BehaviourAt(table, field) == IF field \in DOMAIN table THEN table[field] ELSE "keep"

\* an inline refinement of a subschema (subschema.validate / subschema.normalize) is
\* a function of the schema's author, given by how it ends: "" no function, "pass"
\* it returns (normalize: its argument), "FieldError" it throws a FieldError of
\* code 'custom', "Error" it throws an Error
Refinements == {"", "pass", "FieldError", "Error"}
\* what a call of the refinement throws ("" when it returns or is absent)
Thrown(fn) == IF fn \in {"FieldError", "Error"} THEN fn ELSE ""
\* if (typeof subschema[h] === 'function') subschema[h](value, subschema, field, ...)
CallRefinement(h, field, value, subschema, acc) ==
    IF subschema[h] = "" THEN acc ELSE Logged(acc, h, field, value, subschema)
\* a variant of the catch block that treats every exception as a FieldError
CatchEverything(ex, field, acc, ret) ==
    [ret |-> ret, acc |-> AddFieldError(acc, IF ex = "Error" THEN "custom" ELSE ex, field)]
\* catch (ex): a FieldError (ex is its code) is stamped with the field and added,
\* the handler returning ret; anything else is thrown again
Catch(ex, field, acc, ret) ==
    IF ex # "Error" THEN [ret |-> ret, acc |-> AddFieldError(acc, ex, field)]
    ELSE [ret |-> Undef, acc |-> Raise(acc, ex)]
\* what a refinement's exception is inside the try block: the FieldError's code, or Error
Exception(fn) == IF fn = "FieldError" THEN "custom" ELSE Thrown(fn)

\* Validator.onField: the handler's return value (false prunes) and the errors added
ValidatorOnField(H, field, value, subschema, acc0) ==
    LET v == IF IsMissing(value) /\ ~IsMissing(subschema.default) THEN subschema.default ELSE value
        acc == Logged(acc0, "onField", field, value, subschema)
    IN IF IsMissing(v)
       THEN [ret |-> Undef,
             acc |-> IF subschema.required /\ ~H.options.allowMissingFields
                     THEN AddFieldError(acc, "required", field) ELSE acc]
       ELSE IF subschema.enum # Undef /\ ~CheckEnum(v, subschema.enum)
       THEN [ret |-> Undef, acc |-> AddFieldError(acc, "unrecognized", field)]
       ELSE IF TypeValidate(subschema, v, H.options) # ""
       THEN Catch(TypeValidate(subschema, v, H.options), field, acc, Bool(FALSE))
       ELSE IF Thrown(subschema.validate) # ""
       THEN Catch(Exception(subschema.validate), field,
                  CallRefinement("validate", field, v, subschema, acc), Bool(FALSE))
       ELSE [ret |-> Undef, acc |-> CallRefinement("validate", field, v, subschema, acc)]
\* Validator.onUnknownField
ValidatorOnUnknownField(H, field, value, acc0) ==
    LET acc == Logged(acc0, "onUnknownField", field, value, NoSchema)
    IN IF ~H.options.allowUnknownFields THEN AddFieldError(acc, "unknown_field", field) ELSE acc

\* a caller's traverse onField: logs the call, returns what its table says
UserTraverseOnField(H, field, value, subschema, acc) ==
    [ret |-> CASE BehaviourAt(H.on, field) = "false" -> Bool(FALSE)
               [] BehaviourAt(H.on, field) = "true" -> Bool(TRUE)
               [] BehaviourAt(H.on, field) = "zero" -> Num(0)
               [] OTHER -> Undef,
     acc |-> Logged(acc, "onField", field, value, subschema)]

\* handlers.onField(field, value, subschema, subschemaType) during traverse
TraverseOnField(H, field, value, subschema, acc) ==
    IF H.kind = "validator" THEN ValidatorOnField(H, field, value, subschema, acc)
    ELSE UserTraverseOnField(H, field, value, subschema, acc)
\* handlers.onUnknownField(field, value) during traverse
TraverseOnUnknownField(H, field, value, acc) ==
    IF H.kind = "validator" THEN ValidatorOnUnknownField(H, field, value, acc)
    ELSE Logged(acc, "onUnknownField", field, value, NoSchema)

(***************************************************************************)
(* Subfield catalogues of the container types.                             *)
(***************************************************************************)
\* subschema.keySchemas && subschema.keySchemas[field]
HasKeySchema(subschema, field) ==
    \E i \in 1..Len(subschema.keySchemas) : subschema.keySchemas[i].k = field
KeySchema(subschema, field) ==
    subschema.keySchemas[CHOOSE i \in 1..Len(subschema.keySchemas) :
                            subschema.keySchemas[i].k = field].s
\* the subschema the entries of an array set or map share
SharedSubschema(subschema) ==
    IF subschema.type = "arrayset" THEN subschema.elements ELSE subschema.values
\* subschemaType.getFieldSubschema(subschema, pathComponent)
GetFieldSubschema(subschema, pathComponent) ==
    CASE subschema.type = "object" ->
            (IF \E i \in 1..Len(subschema.properties) : subschema.properties[i].k = pathComponent
             THEN subschema.properties[CHOOSE i \in 1..Len(subschema.properties) :
                                          subschema.properties[i].k = pathComponent].s
             ELSE NoSchema)
      [] subschema.type = "array" ->
            (IF IsIndexStr(pathComponent) \/ pathComponent \in {"$", "#", "_", "*"}
             THEN subschema.elements ELSE NoSchema)
      [] subschema.type \in {"arrayset", "map"} ->
            (IF HasKeySchema(subschema, pathComponent)
             THEN KeySchema(subschema, pathComponent)
             ELSE SharedSubschema(subschema))
      [] subschema.type = "mixed" -> Node("mixed")
      [] OTHER -> NoSchema
\* getFieldSubschemaForModify of the array set and the map: the subschema as the call
\* leaves it, with keySchemas[field] a copy of the shared subschema when it had none
GetFieldSubschemaForModify(subschema, field) ==
    IF HasKeySchema(subschema, field) \/ field = "$" THEN subschema
    ELSE [subschema EXCEPT !.keySchemas = Append(@, Prop(field, SharedSubschema(subschema)))]
\* what the entry of keySchemas for field becomes when the option is set on it
WithOption(entry, field, optionName, optionValue) ==
    IF entry.k # field THEN entry
    ELSE Prop(field, [entry.s EXCEPT ![optionName] = optionValue])
\* Schema.setSubschemaOption(field, optionName, optionValue) on an array set or map at
\* the root: the option is set on what getSubschemaDataForModify returns
SetSubschemaOptionAt(subschema, field, optionName, optionValue) ==
    LET m == GetFieldSubschemaForModify(subschema, field)
    IN IF HasKeySchema(m, field)
       THEN [m EXCEPT !.keySchemas =
                [i \in 1..Len(m.keySchemas) |->
                    WithOption(m.keySchemas[i], field, optionName, optionValue)]]
       ELSE IF m.type = "arrayset"
       THEN [m EXCEPT !.elements = [@ EXCEPT ![optionName] = optionValue]]
       ELSE [m EXCEPT !.values = [@ EXCEPT ![optionName] = optionValue]]
\* subschemaType.listSchemaSubfields(subschema)
ListSchemaSubfields(subschema) ==
    CASE subschema.type = "object" ->
            [i \in 1..Len(subschema.properties) |-> subschema.properties[i].k]
      [] subschema.type = "array" -> <<"$">>
      [] subschema.type \in {"arrayset", "map"} ->
            <<"$">> \o [i \in 1..Len(subschema.keySchemas) |-> subschema.keySchemas[i].k]
      [] OTHER -> <<>>
\* subschemaType.listValueSubfields(value, subschema) of the base-class containers
ListValueSubfields(value, subschema) ==
    CASE subschema.type \in {"object", "map"} -> ObjectKeys(value)
      [] subschema.type = "array" -> (IF IsArray(value) THEN IndexKeys(Len(value.a)) ELSE <<>>)
      [] OTHER -> <<>>
\* SchemaType.listValueSubfieldEntries: [subfield, value] pairs captured up front
ListValueSubfieldEntries(value, subschema) ==
    LET keys == ListValueSubfields(value, subschema)
    IN [i \in 1..Len(keys) |-> KV(keys[i], GetProp(value, keys[i]))]
\* the position of the first element of an array set whose key is field, 0 if none
ElementIndex(value, subschema, field) ==
    LET hits == {i \in 1..Len(value.a) : GetElementKey(value.a[i], subschema) = Str(field)}
    IN IF hits = {} THEN 0 ELSE CHOOSE i \in hits : \A j \in hits : i <= j
\* subschemaType.setValueSubfield(value, subschema, field, fieldValue)
SetValueSubfield(value, subschema, field, fieldValue) ==
    CASE subschema.type = "object" ->
            (IF ~IsObjectLike(value) THEN value
             ELSE IF fieldValue # Undef THEN SetProp(value, field, fieldValue)
             ELSE DelProp(value, field))
      [] subschema.type \in {"array", "map"} -> SetProp(value, field, fieldValue)
      [] subschema.type = "arrayset" ->
            (IF ~IsArray(value) THEN value
             ELSE IF ElementIndex(value, subschema, field) # 0
             THEN Arr([value.a EXCEPT ![ElementIndex(value, subschema, field)] = fieldValue])
             ELSE Arr(Append(value.a, fieldValue)))
      [] OTHER -> value
\* subschemaType.getValueSubfield(value, subschema, field)
GetValueSubfield(value, subschema, field) ==
    CASE subschema.type = "arrayset" ->
            (IF IsArray(value) /\ ElementIndex(value, subschema, field) # 0
             THEN value.a[ElementIndex(value, subschema, field)] ELSE Undef)
      [] subschema.type \in {"object", "array", "map"} -> GetProp(value, field)
      [] OTHER -> Undef
InSeq(x, seq) == \E i \in 1..Len(seq) : seq[i] = x
(***************************************************************************)
(* Schema.traverse and the types' traverse; Schema.validate; the or-type's *)
(* checkTypeMatch and _matchAlternative.  These call one another.          *)
(***************************************************************************)
\* every call the engine's operations make to one another goes through Call, the
\* one recursive entry, which hands the frame to the operation it names
RECURSIVE Call(_)
InvokeTraverseSubschemaValue(value, subschema, field, H, acc) ==
    Call([fn |-> "schema._traverseSubschemaValue", value |-> value, subschema |-> subschema,
          field |-> field, handlers |-> H, acc |-> acc])
InvokeTransformSubschemaValue(value, subschema, field, H, acc) ==
    Call([fn |-> "schema._transformSubschemaValue", value |-> value, subschema |-> subschema,
          field |-> field, handlers |-> H, acc |-> acc])
InvokeTypeTraverse(value, subschema, field, H, acc) ==
    Call([fn |-> "subschemaType.traverse", value |-> value, subschema |-> subschema,
          field |-> field, handlers |-> H, acc |-> acc])
InvokeTypeTransform(value, subschema, field, H, acc) ==
    Call([fn |-> "subschemaType.transform", value |-> value, subschema |-> subschema,
          field |-> field, handlers |-> H, acc |-> acc])
InvokeTraverseSubschema(subschema, path, H, acc) ==
    Call([fn |-> "schema._traverseSubschema", subschema |-> subschema, field |-> path,
          handlers |-> H, acc |-> acc])
InvokeMatchAlternative(value, subschema) ==
    Call([fn |-> "_matchAlternative", value |-> value, subschema |-> subschema])
InvokeSchemaValidate(schemaData, value, options) ==
    Call([fn |-> "schema.validate", value |-> value, subschema |-> schemaData,
          options |-> options])
InvokeSchemaNormalize(schemaData, value, options) ==
    Call([fn |-> "schema.normalize", value |-> value, subschema |-> schemaData,
          options |-> options])

\* the result of Schema.validate / Schema.normalize: how the call ended
\* ('ok', 'ValidationError' with its fieldErrors, or another exception)
Outcome(acc) ==
    IF acc.exc # "" THEN acc.exc
    ELSE IF acc.errs # <<>> THEN "ValidationError"
    ELSE "ok"
\* the calls the Validator / Normalizer received and made: which function, at which
\* field, and what it threw ("" if it returned)
Calls(acc) ==
    [i \in 1..Len(acc.log) |->
        [h |-> acc.log[i].h, field |-> acc.log[i].field,
         thrown |-> IF acc.log[i].h \in {"validate", "normalize"}
                    THEN Thrown(acc.log[i].subschema[acc.log[i].h]) ELSE ""]]
\* Schema.validate(value, options)
SchemaValidate(schemaData, value, options) ==
    LET acc == InvokeTraverseSubschemaValue(value, schemaData, "", ValidatorHandlers(options), EmptyAcc)
    IN [outcome |-> Outcome(acc), errs |-> acc.errs, v |-> value, log |-> Calls(acc)]

\* Schema.normalize(value, options)
SchemaNormalize(schemaData, value, options) ==
    LET r == InvokeTransformSubschemaValue(value, schemaData, "", NormalizerHandlers(options), EmptyAcc)
    IN [outcome |-> Outcome(r.acc), errs |-> r.acc.errs, v |-> r.v, log |-> Calls(r.acc)]
\* SchemaType.checkTypeMatch, which the types without one of their own inherit: 3 if
\* this.validate passes, else 2 if this.normalize passes, else 0.  The one type here
\* that inherits it is geopoint, whose validate and normalize are validatePosition
\* and normalizePosition
BaseCheckTypeMatch(subschema, value) ==
    IF ValidatePosition(value) = "" THEN 3
    ELSE IF NormalizePosition(value).ok THEN 2
    ELSE 0
\* the value as SchemaType.checkTypeMatch leaves it: normalize is given the value
\* itself and may have changed it in place
LeftByBaseCheckTypeMatch(subschema, value) ==
    IF ValidatePosition(value) = "" THEN value
    ELSE NormalizePositionInPlace(value)
RECURSIVE LeftByCheckTypeMatch(_, _)
RECURSIVE SeenBy(_, _, _)
\* the value as subschemaType.checkTypeMatch(value, subschema) leaves it
LeftByCheckTypeMatch(subschema, value) ==
    CASE subschema.type = "geopoint" -> LeftByBaseCheckTypeMatch(subschema, value)
      [] subschema.type = "or" -> SeenBy(subschema, value, Len(subschema.alternatives) + 1)
      [] OTHER -> value
\* the value the scoring loop hands to alternative i: as the alternatives before it
\* left it
SeenBy(subschema, value, i) ==
    IF i = 1 THEN value
    ELSE LeftByCheckTypeMatch(subschema.alternatives[i - 1], SeenBy(subschema, value, i - 1))
\* the value when the scoring loop is over
LeftByScoring(subschema, value) == SeenBy(subschema, value, Len(subschema.alternatives) + 1)
RECURSIVE CheckTypeMatch(_, _)
RECURSIVE Scores(_, _)
\* SchemaTypeOr.checkTypeMatch: the best of its alternatives' scores, a TypeError
\* passing through
BestScore(scores) ==
    IF \E i \in DOMAIN scores : scores[i] = -1 THEN -1
    ELSE IF \E i \in DOMAIN scores : scores[i] = 3 THEN 3
    ELSE IF \E i \in DOMAIN scores : scores[i] = 2 THEN 2
    ELSE IF \E i \in DOMAIN scores : scores[i] = 1 THEN 1
    ELSE 0
\* subschemaType.checkTypeMatch(value, subschema): 0..3, or -1 for a TypeError thrown
CheckTypeMatch(subschema, value) ==
    CASE subschema.type \in {"object", "map"} -> (IF IsPlainObject(value) THEN 1 ELSE 0)
      [] subschema.type \in {"array", "arrayset"} -> (IF IsArray(value) THEN 1 ELSE 0)
      [] subschema.type = "string" ->
            (IF value.t = "string" THEN 3
             ELSE IF ~Truthy(value) \/ ~IsObjectLike(value) THEN 2
             ELSE 0)
      [] subschema.type = "number" ->
            (IF value.t = "number" THEN 3
             ELSE IF value.t = "string" /\ value.s # "" /\ IsNumericStr(value.s) THEN 2
             ELSE 0)
      [] subschema.type = "boolean" ->
            (IF value.t = "boolean" THEN 3
             ELSE IF value = Num(0) \/ value = Num(1) THEN 2
             ELSE IF value.t # "string" THEN -1
             ELSE IF ToLowerCase(value.s) \in (FalseStringSet \cup TrueStringSet) THEN 2
             ELSE 0)
      [] subschema.type = "geopoint" -> BaseCheckTypeMatch(subschema, value)
      [] subschema.type = "or" -> BestScore(Scores(subschema, value))
      [] OTHER -> 0
\* the scoring loop: what each alternative's checkTypeMatch returns, given the value
\* as the alternatives before it left it
Scores(subschema, value) ==
    [i \in 1..Len(subschema.alternatives) |->
        CheckTypeMatch(subschema.alternatives[i], SeenBy(subschema, value, i))]

RECURSIVE Ascending(_)
\* positions in the order the loop met them
Ascending(S) ==
    IF S = {} THEN <<>>
    ELSE <<CHOOSE x \in S : \A y \in S : x <= y>>
            \o Ascending(S \ {CHOOSE x \in S : \A y \in S : x <= y})
\* alternativesByTypeMatch[level]: the positions of the alternatives scoring level
AlternativesByTypeMatch(scores, level) ==
    Ascending({i \in DOMAIN scores : scores[i] = level})
\* the level whose alternatives decide the match: the highest nonempty one, 0 if none
BestLevel(scores) ==
    IF AlternativesByTypeMatch(scores, 3) # <<>> THEN 3
    ELSE IF AlternativesByTypeMatch(scores, 2) # <<>> THEN 2
    ELSE IF AlternativesByTypeMatch(scores, 1) # <<>> THEN 1
    ELSE 0
\* one probe of a tie-break stage: how the alternative's validate / normalize ends
Probe(stage, alt, value) ==
    CASE stage = "validate" -> InvokeSchemaValidate(alt, value, DefaultOptions).outcome
      [] stage = "normalize" -> InvokeSchemaNormalize(alt, value, DefaultOptions).outcome
      [] OTHER -> InvokeSchemaNormalize(alt, value,
                        [DefaultOptions EXCEPT !.allowUnknownFields = TRUE]).outcome
RECURSIVE ProbeStage(_, _, _, _, _)
\* one tie-break loop over the tied alternatives from position i on: the first whose
\* probe succeeds (found = its index, 0 if none); any exception other than a
\* ValidationError propagates; probes lists the probes run
ProbeStage(stage, subschema, tiebreakers, i, value) ==
    IF i > Len(tiebreakers) THEN [found |-> 0, exc |-> "", probes |-> <<>>]
    ELSE LET out == Probe(stage, subschema.alternatives[tiebreakers[i]], value)
             this == <<[stage |-> stage, alt |-> tiebreakers[i]]>>
         IN IF out = "ok" THEN [found |-> tiebreakers[i], exc |-> "", probes |-> this]
            ELSE IF out # "ValidationError" THEN [found |-> 0, exc |-> out, probes |-> this]
            ELSE LET rest == ProbeStage(stage, subschema, tiebreakers, i + 1, value)
                 IN [rest EXCEPT !.probes = this \o @]
\* the three tie-break loops in order, then tiebreakers[0]
TieBreak(subschema, tiebreakers, value) ==
    LET a == ProbeStage("validate", subschema, tiebreakers, 1, value)
        b == ProbeStage("normalize", subschema, tiebreakers, 1, value)
        c == ProbeStage("normalizeAllowUnknown", subschema, tiebreakers, 1, value)
    IN IF a.found # 0 \/ a.exc # "" THEN a
       ELSE IF b.found # 0 \/ b.exc # "" THEN [b EXCEPT !.probes = a.probes \o @]
       ELSE IF c.found # 0 \/ c.exc # "" THEN [c EXCEPT !.probes = a.probes \o b.probes \o @]
       ELSE [found |-> tiebreakers[1], exc |-> "", probes |-> a.probes \o b.probes \o c.probes]
\* a fallback that hands back the last alternative instead of the first
NoValidMatchLast(subschema) ==
    [exc |-> "", idx |-> Len(subschema.alternatives),
     alt |-> subschema.alternatives[Len(subschema.alternatives)], probes |-> <<>>]
\* no alternative scored above 0: the first alternative overall
NoValidMatch(subschema) ==
    [exc |-> "", idx |-> 1, alt |-> subschema.alternatives[1], probes |-> <<>>]
\* an alternative chosen, with the probes run to choose it
Chosen(subschema, i, probes) ==
    [exc |-> "", idx |-> i, alt |-> subschema.alternatives[i], probes |-> probes]
\* the tie-break's outcome as _matchAlternative's
Broken(subschema, t) ==
    IF t.exc # "" THEN [exc |-> t.exc, idx |-> 0, alt |-> NoSchema, probes |-> t.probes]
    ELSE Chosen(subschema, t.found, t.probes)
\* _matchAlternative once the scoring loop is over: left is the value as the loop
\* left it
MatchScored(subschema, scores, left) ==
    IF \E i \in DOMAIN scores : scores[i] = -1
    THEN [exc |-> "TypeError", idx |-> 0, alt |-> NoSchema, probes |-> <<>>]
    ELSE IF BestLevel(scores) = 0 THEN NoValidMatch(subschema)
    ELSE IF Len(AlternativesByTypeMatch(scores, BestLevel(scores))) = 1
    THEN Chosen(subschema, AlternativesByTypeMatch(scores, BestLevel(scores))[1], <<>>)
    ELSE Broken(subschema,
                TieBreak(subschema, AlternativesByTypeMatch(scores, BestLevel(scores)), left))
\* SchemaTypeOr._matchAlternative: [idx, alt] of the alternative chosen and the probes
\* run, or exc when scoring or a probe throws
MatchAlternative(value, subschema) ==
    MatchScored(subschema, Scores(subschema, value), LeftByScoring(subschema, value))

RECURSIVE TraverseEntries(_, _, _, _, _)
RECURSIVE TraverseSchemaKeys(_, _, _, _, _, _)
RECURSIVE TraverseElements(_, _, _, _, _)
\* the value's own subfields, in the order captured
TraverseEntries(entries, subschema, field, H, acc) ==
    IF entries = <<>> THEN acc
    ELSE TraverseEntries(Tail(entries), subschema, field, H,
            InvokeTraverseSubschemaValue(Head(entries).v,
                                   GetFieldSubschema(subschema, Head(entries).k),
                                   JoinPath(field, Head(entries).k), H, acc))
\* the schema's declared subfields the value lacks, visited with undefined
TraverseSchemaKeys(keys, seen, subschema, field, H, acc) ==
    IF keys = <<>> THEN acc
    ELSE IF InSeq(Head(keys), seen)
    THEN TraverseSchemaKeys(Tail(keys), seen, subschema, field, H, acc)
    ELSE TraverseSchemaKeys(Tail(keys), Append(seen, Head(keys)), subschema, field, H,
            InvokeTraverseSubschemaValue(Undef, GetFieldSubschema(subschema, Head(keys)),
                                   JoinPath(field, Head(keys)), H, acc))
\* SchemaTypeArraySet.traverse: every element, addressed by its key
TraverseElements(elems, subschema, field, H, acc) ==
    IF elems = <<>> THEN acc
    ELSE TraverseElements(Tail(elems), subschema, field, H,
            InvokeTraverseSubschemaValue(Head(elems), subschema.elements,
                JoinPath(field, KeyText(GetElementKey(Head(elems), subschema))), H, acc))

\* subschemaType.traverse: SchemaType.traverse, and the or / arrayset overrides
TypeTraverse(value, subschema, field, H, acc) ==
    CASE subschema.type = "or" ->
            (LET m == InvokeMatchAlternative(value, subschema)
             IN IF m.exc # "" THEN Raise(acc, m.exc)
                ELSE InvokeTraverseSubschemaValue(LeftByScoring(subschema, value), m.alt,
                                                  field, H, acc))
      [] subschema.type = "arrayset" ->
            (IF ~IsArray(value) THEN acc
             ELSE TraverseElements(value.a, subschema, field, H, acc))
      [] OTHER ->
            (IF ~DefaultIsContainer(subschema.type) THEN acc
             ELSE LET entries == ListValueSubfieldEntries(value, subschema)
                      acc1 == TraverseEntries(entries, subschema, field, H, acc)
                  IN IF ContainerSchemaKeysMatchValueKeys(subschema.type)
                     THEN TraverseSchemaKeys(ListSchemaSubfields(subschema),
                                             [i \in 1..Len(entries) |-> entries[i].k],
                                             subschema, field, H, acc1)
                     ELSE acc1)

\* a variant that stops descending on any falsy return
TraverseAfterOnFieldFalsy(value, subschema, field, H, r) ==
    IF r.acc.exc = "" /\ Truthy(r.ret) /\ ~IsMissing(value)
    THEN InvokeTypeTraverse(value, subschema, field, H, r.acc)
    ELSE r.acc
\* _traverseSubschemaValue after onField returned r: descend unless it returned
\* exactly false or the value is null / undefined
TraverseAfterOnField(value, subschema, field, H, r) ==
    IF r.acc.exc = "" /\ r.ret # Bool(FALSE) /\ ~IsMissing(value)
    THEN InvokeTypeTraverse(value, subschema, field, H, r.acc)
    ELSE r.acc
\* Schema._traverseSubschemaValue
TraverseSubschemaValue(value, subschema, field, H, acc) ==
    IF acc.exc # "" THEN acc
    ELSE IF subschema # NoSchema
    THEN TraverseAfterOnField(value, subschema, field, H,
            IF H.onField THEN TraverseOnField(H, field, value, subschema, acc)
            ELSE [ret |-> Bool(TRUE), acc |-> acc])
    ELSE IF value # Undef
    THEN IF H.onUnknownField THEN TraverseOnUnknownField(H, field, value, acc) ELSE acc
    ELSE acc

(***************************************************************************)
(* Schema.transform and the types' transform; Schema.normalize.            *)
(***************************************************************************)
\* what Schema.stopTransform() / Schema.setAndStopTransform(v) hand back to the engine
StopTransform == [t |-> "stopTransform", setNewValue |-> FALSE, newValue |-> Undef]
SetAndStopTransform(v) == [t |-> "stopTransform", setNewValue |-> TRUE, newValue |-> v]
IsStopTransform(v) == v.t = "stopTransform"

\* Normalizer.onField: the field's new value and the errors added
NormalizerOnField(H, field, value, subschema, acc0) ==
    LET v == IF IsMissing(value) /\ ~IsMissing(subschema.default) /\ ~H.options.ignoreDefaults
             THEN subschema.default ELSE value
        acc == Logged(acc0, "onField", field, value, subschema)
        acc1 == CallRefinement("normalize", field, v, subschema, acc)
        n == TypeNormalize(subschema, v, H.options)
    IN IF IsMissing(v)
       THEN IF subschema.required /\ ~H.options.allowMissingFields
            THEN [ret |-> Undef, acc |-> AddFieldError(acc, "required", field)]
            ELSE [ret |-> v, acc |-> acc]
       ELSE IF Thrown(subschema.normalize) # ""
       THEN Catch(Exception(subschema.normalize), field, acc1, Undef)
       ELSE IF ~n.ok
       THEN Catch(n.code, field, acc1, Undef)
       ELSE IF Thrown(subschema.validate) # ""
       THEN Catch(Exception(subschema.validate), field,
                  CallRefinement("validate", field, n.v, subschema, acc1), Undef)
       ELSE IF subschema.enum # Undef /\ ~CheckEnum(n.v, subschema.enum)
       THEN [ret |-> Undef,
             acc |-> AddFieldError(CallRefinement("validate", field, n.v, subschema, acc1),
                                   "unrecognized", field)]
       ELSE [ret |-> n.v, acc |-> CallRefinement("validate", field, n.v, subschema, acc1)]
\* Normalizer.onUnknownField
NormalizerOnUnknownField(H, field, value, acc0) ==
    LET acc == Logged(acc0, "onUnknownField", field, value, NoSchema)
    IN
    IF H.options.removeUnknownFields THEN [ret |-> Undef, acc |-> acc]
    ELSE IF ~H.options.allowUnknownFields
    THEN [ret |-> value, acc |-> AddFieldError(acc, "unknown_field", field)]
    ELSE [ret |-> value, acc |-> acc]

\* what a caller's transform handler gives back for a behaviour of its table
UserReturn(behaviour, value, repl) ==
    CASE behaviour = "undef" -> Undef
      [] behaviour = "null" -> Null
      [] behaviour = "repl" -> repl
      [] behaviour = "stop" -> StopTransform
      [] behaviour = "set" -> SetAndStopTransform(repl)
      [] OTHER -> value
\* handlers.onField(field, value, subschema, subschemaType) during transform
TransformOnField(H, field, value, subschema, acc) ==
    IF H.kind = "normalizer" THEN NormalizerOnField(H, field, value, subschema, acc)
    ELSE [ret |-> UserReturn(BehaviourAt(H.on, field), value, H.repl),
          acc |-> Logged(acc, "onField", field, value, subschema)]
\* handlers.postField(field, value, subschema, subschemaType)
TransformPostField(H, field, value, subschema, acc) ==
    [ret |-> UserReturn(BehaviourAt(H.post, field), value, H.repl),
     acc |-> Logged(acc, "postField", field, value, subschema)]
\* handlers.onUnknownField(field, value) during transform
TransformOnUnknownField(H, field, value, acc) ==
    IF H.kind = "normalizer" THEN NormalizerOnUnknownField(H, field, value, acc)
    ELSE [ret |-> UserReturn(BehaviourAt(H.unknown, field), value, H.repl),
          acc |-> Logged(acc, "onUnknownField", field, value, NoSchema)]

RECURSIVE TransformEntries(_, _, _, _, _, _)
RECURSIVE TransformSchemaKeys(_, _, _, _, _, _, _)
RECURSIVE TransformElements(_, _, _, _, _)
\* a write a caller's onField makes to the container that holds its field, besides
\* returning: container[k] = v, or delete container[k] when v is undefined
Write(k, v) == [k |-> k, v |-> v]
\* the container (cur) after the onField of the field has run: H.touch says which
\* fields' handlers write to it, and what
Touched(H, field, cur) ==
    IF ~(H.onField /\ field \in DOMAIN H.touch /\ IsObjectLike(cur)) THEN cur
    ELSE IF H.touch[field].v = Undef /\ IsPlainObject(cur) THEN DelProp(cur, H.touch[field].k)
    ELSE SetProp(cur, H.touch[field].k, H.touch[field].v)
\* a variant that hands each child the value the container holds for its key when
\* the child's turn comes
RECURSIVE TransformEntriesLive(_, _, _, _, _, _)
TransformEntriesLive(entries, cur, subschema, field, H, acc) ==
    IF entries = <<>> THEN [v |-> cur, acc |-> acc]
    ELSE LET r == InvokeTransformSubschemaValue(
                        GetValueSubfield(cur, subschema, Head(entries).k),
                        GetFieldSubschema(subschema, Head(entries).k),
                        JoinPath(field, Head(entries).k), H, acc)
         IN TransformEntriesLive(Tail(entries),
                SetValueSubfield(Touched(H, JoinPath(field, Head(entries).k), cur),
                                 subschema, Head(entries).k, r.v),
                subschema, field, H,
                Set(r.acc, field, Head(entries).k, r.v))
\* a variant that transforms each captured entry and writes nothing back
RECURSIVE TransformEntriesKept(_, _, _, _, _, _)
TransformEntriesKept(entries, cur, subschema, field, H, acc) ==
    IF entries = <<>> THEN [v |-> cur, acc |-> acc]
    ELSE TransformEntriesKept(Tail(entries), cur, subschema, field, H,
            InvokeTransformSubschemaValue(Head(entries).v,
                GetFieldSubschema(subschema, Head(entries).k),
                JoinPath(field, Head(entries).k), H, acc).acc)
\* the first loop of SchemaType.transform: each captured entry is transformed and
\* written back into the container (cur)
TransformEntries(entries, cur, subschema, field, H, acc) ==
    IF entries = <<>> THEN [v |-> cur, acc |-> acc]
    ELSE LET r == InvokeTransformSubschemaValue(Head(entries).v,
                        GetFieldSubschema(subschema, Head(entries).k),
                        JoinPath(field, Head(entries).k), H, acc)
         IN TransformEntries(Tail(entries),
                SetValueSubfield(Touched(H, JoinPath(field, Head(entries).k), cur),
                                 subschema, Head(entries).k, r.v),
                subschema, field, H,
                Set(r.acc, field, Head(entries).k, r.v))
\* the second loop: declared subfields the value lacks are transformed from
\* undefined into newValueBatch (batch, a sequence of key/value pairs)
TransformSchemaKeys(keys, seen, batch, subschema, field, H, acc) ==
    IF keys = <<>> THEN [batch |-> batch, acc |-> acc]
    ELSE IF InSeq(Head(keys), seen)
    THEN TransformSchemaKeys(Tail(keys), seen, batch, subschema, field, H, acc)
    ELSE LET r == InvokeTransformSubschemaValue(Undef, GetFieldSubschema(subschema, Head(keys)),
                        JoinPath(field, Head(keys)), H, acc)
         IN TransformSchemaKeys(Tail(keys), Append(seen, Head(keys)),
                                Append(batch, KV(Head(keys), r.v)), subschema, field, H, r.acc)
\* subschemaType.setValueSubfieldBatch(value, subschema, newValues)
RECURSIVE SetValueSubfieldBatch(_, _, _)
SetValueSubfieldBatch(value, subschema, newValues) ==
    IF newValues = <<>> THEN value
    ELSE SetValueSubfieldBatch(
            SetValueSubfield(value, subschema, Head(newValues).k, Head(newValues).v),
            subschema, Tail(newValues))
\* the setValueSubfield calls setValueSubfieldBatch makes, as recorded
RECURSIVE SetBatch(_, _, _)
SetBatch(acc, field, newValues) ==
    IF newValues = <<>> THEN acc
    ELSE SetBatch(Set(acc, field, Head(newValues).k, Head(newValues).v), field,
                  Tail(newValues))
\* a variant that upserts by the key of the new value: a rewritten key finds no
\* element to overwrite, so the new element is added and the old one stays
RECURSIVE TransformElementsUpsert(_, _, _, _, _)
TransformElementsUpsert(elems, subschema, field, H, acc) ==
    IF elems = <<>> THEN [a |-> <<>>, acc |-> acc]
    ELSE LET r == InvokeTransformSubschemaValue(Head(elems), subschema.elements,
                        JoinPath(field, KeyText(GetElementKey(Head(elems), subschema))), H, acc)
             rest == TransformElementsUpsert(Tail(elems), subschema, field, H, r.acc)
         IN [a |-> (IF r.v # Undef /\ GetElementKey(r.v, subschema)
                                        # GetElementKey(Head(elems), subschema)
                    THEN <<Head(elems), r.v>> ELSE <<r.v>>) \o rest.a,
             acc |-> rest.acc]
\* SchemaTypeArraySet.transform: every element mapped to its new value (the
\* undefined ones are filtered out by the caller)
TransformElements(elems, subschema, field, H, acc) ==
    IF elems = <<>> THEN [a |-> <<>>, acc |-> acc]
    ELSE LET r == InvokeTransformSubschemaValue(Head(elems), subschema.elements,
                        JoinPath(field, KeyText(GetElementKey(Head(elems), subschema))), H, acc)
             rest == TransformElements(Tail(elems), subschema, field, H, r.acc)
         IN [a |-> <<r.v>> \o rest.a, acc |-> rest.acc]

\* subschemaType.transform: SchemaType.transform, and the or / arrayset overrides
TypeTransform(value, subschema, field, H, acc) ==
    CASE subschema.type = "or" ->
            (LET m == InvokeMatchAlternative(value, subschema)
             IN IF m.exc # "" THEN [v |-> value, acc |-> Raise(acc, m.exc)]
                ELSE InvokeTransformSubschemaValue(LeftByScoring(subschema, value), m.alt,
                                                   field, H, acc))
      [] subschema.type = "arrayset" ->
            (IF ~IsArray(value) THEN [v |-> value, acc |-> acc]
             ELSE LET r == TransformElements(value.a, subschema, field, H, acc)
                  IN [v |-> Arr(RemoveArrayUndefinedValues(r.a)), acc |-> r.acc])
      [] OTHER ->
            (IF ~(DefaultIsContainer(subschema.type) /\ Truthy(value))
             THEN [v |-> value, acc |-> acc]
             ELSE LET entries == ListValueSubfieldEntries(value, subschema)
                      r1 == TransformEntries(entries, value, subschema, field, H, acc)
                  IN IF ContainerSchemaKeysMatchValueKeys(subschema.type)
                     THEN LET r2 == TransformSchemaKeys(ListSchemaSubfields(subschema),
                                        [i \in 1..Len(entries) |-> entries[i].k],
                                        <<>>, subschema, field, H, r1.acc)
                          IN [v |-> SetValueSubfieldBatch(r1.v, subschema, r2.batch),
                              acc |-> SetBatch(r2.acc, field, r2.batch)]
                     ELSE r1)

\* a variant in which postField is invoked but what it returns is dropped
TransformPostStepDropped(subschema, field, H, r2) ==
    IF H.postField /\ r2.acc.exc = ""
    THEN [v |-> r2.v, acc |-> TransformPostField(H, field, r2.v, subschema, r2.acc).acc]
    ELSE r2
\* _transformSubschemaValue after the descent (r2): postField, when given, has the last word
TransformPostStep(subschema, field, H, r2) ==
    IF H.postField /\ r2.acc.exc = ""
    THEN [v |-> TransformPostField(H, field, r2.v, subschema, r2.acc).ret,
          acc |-> TransformPostField(H, field, r2.v, subschema, r2.acc).acc]
    ELSE r2
\* a variant that descends into the value onField was given, not the one it returned
TransformAfterOnFieldGiven(value, subschema, field, H, r1) ==
    IF r1.acc.exc # "" THEN [v |-> value, acc |-> r1.acc]
    ELSE IF H.onField /\ IsStopTransform(r1.ret)
    THEN [v |-> IF r1.ret.setNewValue THEN r1.ret.newValue ELSE value, acc |-> r1.acc]
    ELSE TransformPostStep(subschema, field, H,
            IF ~IsMissing(r1.ret)
            THEN InvokeTypeTransform(value, subschema, field, H, r1.acc)
            ELSE [v |-> r1.ret, acc |-> r1.acc])
\* _transformSubschemaValue after onField returned r1: a stop sentinel ends the field at
\* once; otherwise a non-null new value is descended into, then postField runs
TransformAfterOnField(value, subschema, field, H, r1) ==
    IF r1.acc.exc # "" THEN [v |-> value, acc |-> r1.acc]
    ELSE IF H.onField /\ IsStopTransform(r1.ret)
    THEN [v |-> IF r1.ret.setNewValue THEN r1.ret.newValue ELSE value, acc |-> r1.acc]
    ELSE TransformPostStep(subschema, field, H,
            IF ~IsMissing(r1.ret)
            THEN InvokeTypeTransform(r1.ret, subschema, field, H, r1.acc)
            ELSE [v |-> r1.ret, acc |-> r1.acc])
\* the result of an onUnknownField call as the field's new value
UnknownFieldResult(r) == [v |-> r.ret, acc |-> r.acc]
\* Schema._transformSubschemaValue: [v, acc], the field's new value
TransformSubschemaValue(value, subschema, field, H, acc) ==
    IF acc.exc # "" THEN [v |-> value, acc |-> acc]
    ELSE IF subschema # NoSchema
    THEN TransformAfterOnField(value, subschema, field, H,
            IF H.onField THEN TransformOnField(H, field, value, subschema, acc)
            ELSE [ret |-> value, acc |-> acc])
    ELSE IF value # Undef /\ H.onUnknownField
    THEN UnknownFieldResult(TransformOnUnknownField(H, field, value, acc))
    ELSE [v |-> value, acc |-> acc]

(***************************************************************************)
(* Schema.traverseSchema: the walk over the schema alone.  The rawPath     *)
(* argument is only handed on to the handler and is left out.              *)
(***************************************************************************)
\* handlers.onSubschema(subschema, path, subschemaType, rawPath): logs the call,
\* returns what the caller's table says for the path
OnSubschema(H, subschema, path, acc) ==
    [ret |-> CASE BehaviourAt(H.on, path) = "false" -> Bool(FALSE)
               [] BehaviourAt(H.on, path) = "true" -> Bool(TRUE)
               [] BehaviourAt(H.on, path) = "zero" -> Num(0)
               [] OTHER -> Undef,
     acc |-> Logged(acc, "onSubschema", path, Undef, subschema)]

RECURSIVE TraverseSchemaAlternatives(_, _, _, _)
RECURSIVE TraverseSchemaSubfields(_, _, _, _, _)
\* SchemaTypeOr.traverseSchema: every alternative, at the or node's own path
TraverseSchemaAlternatives(alternatives, path, H, acc) ==
    IF alternatives = <<>> THEN acc
    ELSE TraverseSchemaAlternatives(Tail(alternatives), path, H,
            InvokeTraverseSubschema(Head(alternatives), path, H, acc))
\* the loop of SchemaType.traverseSchema over listSchemaSubfields
TraverseSchemaSubfields(subfields, subschema, path, H, acc) ==
    IF subfields = <<>> THEN acc
    ELSE TraverseSchemaSubfields(Tail(subfields), subschema, path, H,
            InvokeTraverseSubschema(GetFieldSubschema(subschema, Head(subfields)),
                                    JoinPath(path, Head(subfields)), H, acc))
\* subschemaType.traverseSchema: SchemaType.traverseSchema and the or override
TypeTraverseSchema(subschema, path, H, acc) ==
    IF subschema.type = "or"
    THEN TraverseSchemaAlternatives(subschema.alternatives, path, H, acc)
    ELSE IF DefaultIsContainer(subschema.type)
    THEN TraverseSchemaSubfields(ListSchemaSubfields(subschema), subschema, path, H, acc)
    ELSE acc
\* _traverseSubschema after onSubschema returned r: descend unless it returned false
TraverseSchemaAfterOnSubschema(subschema, path, H, r) ==
    IF r.ret # Bool(FALSE) THEN TypeTraverseSchema(subschema, path, H, r.acc) ELSE r.acc
\* Schema._traverseSubschema
TraverseSubschema(subschema, path, H, acc) ==
    TraverseSchemaAfterOnSubschema(subschema, path, H,
        IF H.onSubschema THEN OnSubschema(H, subschema, path, acc)
        ELSE [ret |-> Undef, acc |-> acc])

\* the engine's recursive entry
Call(f) ==
    CASE f.fn = "schema._traverseSubschemaValue" ->
            TraverseSubschemaValue(f.value, f.subschema, f.field, f.handlers, f.acc)
      [] f.fn = "schema._transformSubschemaValue" ->
            TransformSubschemaValue(f.value, f.subschema, f.field, f.handlers, f.acc)
      [] f.fn = "subschemaType.traverse" ->
            TypeTraverse(f.value, f.subschema, f.field, f.handlers, f.acc)
      [] f.fn = "subschemaType.transform" ->
            TypeTransform(f.value, f.subschema, f.field, f.handlers, f.acc)
      [] f.fn = "schema._traverseSubschema" ->
            TraverseSubschema(f.subschema, f.field, f.handlers, f.acc)
      [] f.fn = "_matchAlternative" -> MatchAlternative(f.value, f.subschema)
      [] f.fn = "schema.validate" -> SchemaValidate(f.subschema, f.value, f.options)
      [] OTHER -> SchemaNormalize(f.subschema, f.value, f.options)

(***************************************************************************)
(* Schema definitions as the caller writes them, the SchemaFactory's type  *)
(* registry, and Schema.normalizeSchema.  A definition is a JavaScript     *)
(* value; normalization rewrites it in place, so a normalization that      *)
(* throws leaves the part it had rewritten behind.                         *)
(***************************************************************************)
\* a function or class a definition refers to: String, Number, Date.now, ...
Fn(name) == [t |-> "function", name |-> name]
\* a Date instance: its time value, or an invalid date (getTime() is NaN)
DateValue(valid, ms) == [t |-> "date", valid |-> valid, ms |-> ms]
\* a RegExp with the given source
RegExpValue(source) == [t |-> "regexp", source |-> source]
\* new Date(s) for the date strings of the model
ParseDate(s) ==
    IF s = "1970-01-01" THEN DateValue(TRUE, 0) ELSE DateValue(FALSE, 0)
\* a variant that converts strings and numbers only: a Date instance is refused
ToDateRefusingDates(v) ==
    LET d == CASE v.t = "string" -> ParseDate(v.s)
               [] v.t = "number" -> DateValue(TRUE, v.n)
               [] OTHER -> Null
    IN IF d = Null THEN Null ELSE IF ~d.valid THEN Null ELSE d
\* SchemaTypeDate._toDate: a valid Date for a date, a string or a number, else null
ToDate(v) ==
    LET d == CASE v.t = "date" -> v
               [] v.t = "string" -> ParseDate(v.s)
               [] v.t = "number" -> DateValue(TRUE, v.n)
               [] OTHER -> Null
    IN IF d = Null THEN Null ELSE IF ~d.valid THEN Null ELSE d

\* a schema type instance: the class it is an instance of and, for a primitive
\* type, the shorthands its constructor was given
SchemaTypeInstance(class, shorthands) == [class |-> class, shorthands |-> shorthands]
\* an entry of SchemaFactory._schemaTypes
TypeEntry(name, type) == [name |-> name, type |-> type]
PrimitiveClasses == {"primitive", "string", "number", "date", "binary", "boolean", "mixed"}
\* SchemaFactory.registerType: this._schemaTypes[name] = schemaType.  The registry is
\* a plain object, kept here in the order for-in enumerates it: integer-like names
\* first, in ascending order, then the other names in the order they were first
\* assigned; assigning to a name it has keeps the name's place
RegisterType(types, name, type) ==
    IF \E i \in 1..Len(types) : types[i].name = name
    THEN [i \in 1..Len(types) |->
            IF types[i].name = name THEN TypeEntry(name, type) ELSE types[i]]
    ELSE IF IsIndexStr(name)
    THEN SelectSeq(types, LAMBDA e : IsIndexStr(e.name) /\ ParseIndex(e.name) < ParseIndex(name))
            \o <<TypeEntry(name, type)>>
            \o SelectSeq(types, LAMBDA e : ~(IsIndexStr(e.name) /\ ParseIndex(e.name) < ParseIndex(name)))
    ELSE Append(types, TypeEntry(name, type))
RECURSIVE LoadTypes(_, _)
\* SchemaFactory._loadTypes: every exported class instantiated without arguments and
\* registered under its getName()
LoadTypes(types, instances) ==
    IF instances = <<>> THEN types
    ELSE LoadTypes(RegisterType(types, Head(instances).name, Head(instances).type), Tail(instances))
\* the classes core-schema-types exports, instantiated without arguments: the
\* primitive base class gets no name and no shorthand
CoreSchemaTypes ==
    <<TypeEntry("object", SchemaTypeInstance("object", {})),
      TypeEntry("array", SchemaTypeInstance("array", {})),
      TypeEntry("arrayset", SchemaTypeInstance("arrayset", {})),
      TypeEntry("map", SchemaTypeInstance("map", {})),
      TypeEntry("or", SchemaTypeInstance("or", {})),
      TypeEntry("undefined", SchemaTypeInstance("primitive", {})),
      TypeEntry("string", SchemaTypeInstance("string", {"String"})),
      TypeEntry("number", SchemaTypeInstance("number", {"Number"})),
      TypeEntry("date", SchemaTypeInstance("date", {"Date"})),
      TypeEntry("binary", SchemaTypeInstance("binary", {"Buffer"})),
      TypeEntry("boolean", SchemaTypeInstance("boolean", {"Boolean"})),
      TypeEntry("mixed", SchemaTypeInstance("mixed", {"Mixed"}))>>
GeoSchemaTypes ==
    <<TypeEntry("geopoint", SchemaTypeInstance("geopoint", {})),
      TypeEntry("geojson", SchemaTypeInstance("geojson", {}))>>
\* new SchemaFactory()
NewSchemaFactory == LoadTypes(LoadTypes(<<>>, CoreSchemaTypes), GeoSchemaTypes)

NoType == SchemaTypeInstance("none", {})
\* SchemaFactory.getType(name): the type registered under the name, none when the
\* name is unknown (the caller then throws a SchemaError)
GetType(types, name) ==
    IF \E i \in 1..Len(types) : types[i].name = name
    THEN types[CHOOSE i \in 1..Len(types) : types[i].name = name].type
    ELSE NoType
\* subschemaType.matchShorthandType(shorthand)
MatchShorthandType(type, shorthand) ==
    CASE type.class = "object" -> IsPlainObject(shorthand)
      [] type.class = "array" -> IsArray(shorthand) /\ Len(shorthand.a) = 1
      [] type.class \in PrimitiveClasses ->
            shorthand.t = "function" /\ shorthand.name \in type.shorthands
      [] OTHER -> FALSE
\* the for-in scan of _normalizeSubschema: the index of the first entry whose type
\* claims the shorthand, 0 when none does
ScanSchemaTypes(types, shorthand) ==
    IF \E i \in 1..Len(types) : MatchShorthandType(types[i].type, shorthand)
    THEN CHOOSE i \in 1..Len(types) :
            /\ MatchShorthandType(types[i].type, shorthand)
            /\ \A j \in 1..(i - 1) : ~MatchShorthandType(types[j].type, shorthand)
    ELSE 0
\* subschemaType.normalizeShorthandSchema(subschema)
NormalizeShorthandSchema(type, subschema) ==
    CASE type.class = "object" ->
            (IF IsPlainObject(GetProp(subschema, "type"))
             THEN SetProp(subschema, "properties", GetProp(subschema, "type"))
             ELSE subschema)
      [] type.class = "array" ->
            (IF MatchShorthandType(type, GetProp(subschema, "type"))
             THEN SetProp(subschema, "elements", GetProp(subschema, "type").a[1])
             ELSE subschema)
      [] OTHER -> subschema

\* what a normalization step hands back: v is the subschema returned, or, when the
\* step threw, the argument as the step left it
Normalized(v) == [v |-> v, exc |-> ""]
Threw(v) == [v |-> v, exc |-> "SchemaError"]

\* SchemaTypeString.normalizeSchema: a RegExp match becomes its source text
StringNormalizeSchema(subschema) ==
    IF GetProp(subschema, "match").t = "regexp"
    THEN Normalized(SetProp(subschema, "match", Str(GetProp(subschema, "match").source)))
    ELSE Normalized(subschema)
\* SchemaTypeDate.normalizeSchema for one of the bounds min / max
DateNormalizeBound(r, bound) ==
    IF r.exc # "" \/ ~Truthy(GetProp(r.v, bound)) THEN r
    ELSE IF ToDate(GetProp(r.v, bound)) = Null
    THEN Threw(SetProp(r.v, bound, Null))
    ELSE Normalized(SetProp(r.v, bound, ToDate(GetProp(r.v, bound))))
\* SchemaTypeDate.normalizeSchema
DateNormalizeSchema(subschema) ==
    LET d == IF GetProp(subschema, "default") = Fn("Date.now")
             THEN SetProp(subschema, "default", Fn("() => new Date()"))
             ELSE subschema
    IN DateNormalizeBound(DateNormalizeBound(Normalized(d), "min"), "max")

RECURSIVE NormalizeSubschema(_, _)
RECURSIVE NormalizeEntries(_, _)
RECURSIVE NormalizeAlternatives(_, _)
\* for (let prop in map) map[prop] = schema._normalizeSubschema(map[prop])
NormalizeEntries(entries, types) ==
    IF entries = <<>> THEN [e |-> <<>>, exc |-> ""]
    ELSE LET r == NormalizeSubschema(Head(entries).v, types)
         IN IF r.exc # ""
            THEN [e |-> <<KV(Head(entries).k, r.v)>> \o Tail(entries), exc |-> r.exc]
            ELSE LET rest == NormalizeEntries(Tail(entries), types)
                 IN [e |-> <<KV(Head(entries).k, r.v)>> \o rest.e, exc |-> rest.exc]
\* the loop of SchemaTypeOr.normalizeSchema
NormalizeAlternatives(alternatives, types) ==
    IF alternatives = <<>> THEN [a |-> <<>>, exc |-> ""]
    ELSE LET r == NormalizeSubschema(Head(alternatives), types)
         IN IF r.exc # ""
            THEN [a |-> <<r.v>> \o Tail(alternatives), exc |-> r.exc]
            ELSE LET rest == NormalizeAlternatives(Tail(alternatives), types)
                 IN [a |-> <<r.v>> \o rest.a, exc |-> rest.exc]
\* subschema[slot] = schema._normalizeSubschema(subschema[slot])
NormalizeSlot(subschema, slot, types) ==
    LET r == NormalizeSubschema(GetProp(subschema, slot), types)
    IN [v |-> SetProp(subschema, slot, r.v), exc |-> r.exc]
\* SchemaTypeObject.normalizeSchema
ObjectNormalizeSchema(subschema, types) ==
    IF ~IsPlainObject(GetProp(subschema, "properties")) THEN Threw(subschema)
    ELSE LET r == NormalizeEntries(GetProp(subschema, "properties").e, types)
         IN [v |-> SetProp(subschema, "properties", Obj(r.e)), exc |-> r.exc]
\* if (subschema.keySchemas) for (let k in subschema.keySchemas) ...
NormalizeKeySchemas(r, types) ==
    IF r.exc # "" \/ ~Truthy(GetProp(r.v, "keySchemas")) THEN r
    ELSE LET ks == NormalizeEntries(GetProp(r.v, "keySchemas").e, types)
         IN [v |-> SetProp(r.v, "keySchemas", Obj(ks.e)), exc |-> ks.exc]
\* a variant of SchemaTypeArray.normalizeSchema that checks elements is there and
\* leaves it as it was written
ArrayNormalizeSchemaShallow(subschema, types) ==
    IF ~Truthy(GetProp(subschema, "elements")) THEN Threw(subschema)
    ELSE Normalized(subschema)
\* SchemaTypeArray.normalizeSchema
ArrayNormalizeSchema(subschema, types) ==
    IF ~Truthy(GetProp(subschema, "elements")) THEN Threw(subschema)
    ELSE NormalizeSlot(subschema, "elements", types)
\* SchemaTypeArraySet.normalizeSchema
ArraySetNormalizeSchema(subschema, types) ==
    IF ~Truthy(GetProp(subschema, "elements")) THEN Threw(subschema)
    ELSE NormalizeKeySchemas(NormalizeSlot(subschema, "elements", types), types)
\* SchemaTypeMap.normalizeSchema
MapNormalizeSchema(subschema, types) ==
    IF ~Truthy(GetProp(subschema, "values")) THEN Threw(subschema)
    ELSE NormalizeKeySchemas(NormalizeSlot(subschema, "values", types), types)
\* SchemaTypeOr.normalizeSchema
OrNormalizeSchema(subschema, types) ==
    IF ~IsArray(GetProp(subschema, "alternatives")) THEN Threw(subschema)
    ELSE IF Len(GetProp(subschema, "alternatives").a) < 2 THEN Threw(subschema)
    ELSE LET r == NormalizeAlternatives(GetProp(subschema, "alternatives").a, types)
         IN [v |-> SetProp(subschema, "alternatives", Arr(r.a)), exc |-> r.exc]
\* subschemaType.normalizeSchema(subschema, schema)
TypeNormalizeSchema(type, subschema, types) ==
    CASE type.class = "object" -> ObjectNormalizeSchema(subschema, types)
      [] type.class = "array" -> ArrayNormalizeSchema(subschema, types)
      [] type.class = "arrayset" -> ArraySetNormalizeSchema(subschema, types)
      [] type.class = "map" -> MapNormalizeSchema(subschema, types)
      [] type.class = "or" -> OrNormalizeSchema(subschema, types)
      [] type.class = "string" -> StringNormalizeSchema(subschema)
      [] type.class = "date" -> DateNormalizeSchema(subschema)
      [] OTHER -> Normalized(subschema)
\* what the written declaration looks like after its shorthand was expanded into the
\* wrapper that failed to normalize: the wrapper's properties / elements are the
\* declaration's own objects
ShorthandLeftBehind(type, wrapper) ==
    CASE type.class = "object" /\ IsPlainObject(GetProp(wrapper, "type")) ->
            GetProp(wrapper, "properties")
      [] type.class = "array" /\ MatchShorthandType(type, GetProp(wrapper, "type")) ->
            Arr(<<GetProp(wrapper, "elements")>>)
      [] OTHER -> GetProp(wrapper, "type")
\* the third and fourth branch of _normalizeSubschema: the scan, then
\* normalizeShorthandSchema, normalizeSchema and the type name written over type
NormalizeShorthand(wrapper, types) ==
    LET i == ScanSchemaTypes(types, GetProp(wrapper, "type"))
    IN IF i = 0 THEN Threw(wrapper)
       ELSE LET r == TypeNormalizeSchema(types[i].type,
                        NormalizeShorthandSchema(types[i].type, wrapper), types)
            IN IF r.exc # ""
               THEN Threw(SetProp(r.v, "type", ShorthandLeftBehind(types[i].type, r.v)))
               ELSE Normalized(SetProp(r.v, "type", Str(types[i].name)))
\* Schema._normalizeSubschema(subschema)
NormalizeSubschema(subschema, types) ==
    IF IsPlainObject(subschema) /\ GetProp(subschema, "type").t = "string"
    THEN IF GetType(types, GetProp(subschema, "type").s) = NoType THEN Threw(subschema)
         ELSE TypeNormalizeSchema(GetType(types, GetProp(subschema, "type").s), subschema, types)
    ELSE IF subschema.t = "string"
    THEN IF GetType(types, subschema.s) = NoType THEN Threw(subschema)
         ELSE LET r == TypeNormalizeSchema(GetType(types, subschema.s),
                                           Obj(<<KV("type", subschema)>>), types)
              IN IF r.exc # "" THEN Threw(subschema) ELSE r
    ELSE IF IsPlainObject(subschema) /\ Truthy(GetProp(subschema, "type"))
    THEN NormalizeShorthand(subschema, types)
    ELSE LET r == NormalizeShorthand(Obj(<<KV("type", subschema)>>), types)
         IN IF r.exc # "" THEN Threw(GetProp(r.v, "type")) ELSE r
(***************************************************************************)
(* The schemas and values the callers of the model pass in.                *)
(***************************************************************************)
\* all sequences over S of length lo..hi
SeqsOf(S, lo, hi) == UNION {[1..n -> S] : n \in lo..hi}

ScalarValues ==
    {Null, Bool(TRUE), Bool(FALSE)} \cup {Num(n) : n \in 0..MaxNum}
        \cup {Str(s) : s \in StrVocab} \cup {Str(JSONQuote("a"))}
\* what an array slot or an object property holds
ElementValues == {Undef, Num(MaxNum), Str("a"), Bool(TRUE), Obj(<<KV("a", Num(1))>>)}
PropertyValues == {Null, Num(MaxNum), Str("a"), Arr(<<Num(MaxNum)>>)}
ArrayValues == {Arr(a) : a \in SeqsOf(ElementValues, 0, MaxLen)}
\* arrays long enough to repeat an element behind another one: what an array set
\* is given when its elements repeat
RepeatingArrays ==
    {Arr(a) : a \in [1..(MaxLen + 1) ->
                        {Num(1), Bool(TRUE), Obj(<<KV("a", Num(1))>>), Obj(<<KV("a", Str("1"))>>)}]}
ObjectValues ==
    {Obj(<<>>)} \cup {Obj(<<KV(k, x)>>) : k \in {"a", "b", "c"}, x \in PropertyValues}
        \cup {Obj(<<KV("a", x), KV("b", y)>>) : x \in PropertyValues, y \in PropertyValues}
\* [ long, lat ] pairs, as numbers or as the strings a form sends
PositionValues ==
    {Arr(<<Num(1), Num(MaxNum)>>), Arr(<<Str("1"), Num(MaxNum)>>), Arr(<<Str("1"), Str("1")>>),
     Arr(<<Str("1"), Str("a")>>)}
Values ==
    {Undef} \cup ScalarValues \cup ArrayValues \cup RepeatingArrays \cup ObjectValues
        \cup PositionValues

\* canonical subschema nodes of the scalar types
StringType == Node("string")
NumberType == Node("number")
BooleanType == Node("boolean")
MixedType == Node("mixed")
LeafNodes ==
    {StringType, NumberType, BooleanType, MixedType,
     [MixedType EXCEPT !.serializeMixed = TRUE],
     [StringType EXCEPT !.enum = Arr(<<Str("a")>>)],
     [StringType EXCEPT !.required = TRUE],
     [NumberType EXCEPT !.max = Num(1)],
     [NumberType EXCEPT !.default = Num(1)],
     [NumberType EXCEPT !.required = TRUE, !.default = Num(1)]}
FieldNodes ==
    {StringType, NumberType, [StringType EXCEPT !.required = TRUE],
     [NumberType EXCEPT !.max = Num(1)], ArrayNode(NumberType),
     [NumberType EXCEPT !.required = TRUE, !.default = Num(1)]}
ContainerNodes ==
    {ObjectNode(<<Prop("a", x)>>) : x \in FieldNodes}
        \cup {ObjectNode(<<Prop("a", x), Prop("b", y)>>) : x \in FieldNodes, y \in FieldNodes}
        \cup {ArrayNode(x) : x \in LeafNodes}
        \cup {MapNode(x) : x \in FieldNodes}
        \cup {ArraySetNode(NumberType, Undef), ArraySetNode(StringType, Undef),
              ArraySetNode(BooleanType, Undef),
              ArraySetNode(ObjectNode(<<Prop("a", NumberType)>>), Str("a"))}
\* what an or schema lists as an alternative
AlternativeNodes ==
    {StringType, NumberType, BooleanType,
     [StringType EXCEPT !.enum = Arr(<<Str("a")>>)],
     [NumberType EXCEPT !.max = Num(1)],
     ObjectNode(<<Prop("a", NumberType)>>),
     ObjectNode(<<Prop("a", StringType), Prop("b", StringType)>>),
     ArrayNode(NumberType), ArrayNode(StringType)}
OrNodes ==
    {OrNode(alts) : alts \in SeqsOf(AlternativeNodes, 2, MaxAlts)}
        \cup {[OrNode(<<StringType, NumberType>>) EXCEPT !.enum = Arr(<<Str("a"), Num(1)>>)],
              OrNode(<<ArrayNode(OrNode(<<NumberType, BooleanType>>)), ArrayNode(StringType)>>),
              OrNode(<<MapNode(NumberType), ObjectNode(<<Prop("a", NumberType)>>),
                       ObjectNode(<<Prop("b", NumberType)>>)>>)}
\* scalar nodes carrying an inline refinement, and schemas around them
RefinedNodes ==
    {[StringType EXCEPT !.validate = fn] : fn \in Refinements \ {""}}
        \cup {[NumberType EXCEPT !.normalize = fn] : fn \in Refinements \ {""}}
RefinedSchemas ==
    RefinedNodes
        \cup {ObjectNode(<<Prop("a", x), Prop("b", [StringType EXCEPT !.required = TRUE])>>) :
                    x \in RefinedNodes}
        \cup {ArrayNode(x) : x \in RefinedNodes}
        \cup {OrNode(<<[StringType EXCEPT !.validate = fn], StringType>>) :
                    fn \in Refinements \ {""}}
\* schemas over the geopoint type, which inherits the base class's checkTypeMatch
GeoPointType == Node("geopoint")
GeoSchemas ==
    {GeoPointType, OrNode(<<GeoPointType, ArrayNode(StringType)>>),
     OrNode(<<GeoPointType, StringType>>), OrNode(<<ArrayNode(NumberType), GeoPointType>>),
     OrNode(<<GeoPointType, ArrayNode(NumberType)>>)}
Schemas == LeafNodes \cup ContainerNodes \cup OrNodes \cup RefinedSchemas \cup GeoSchemas
(***************************************************************************)
(* A caller holding a Schema and a value: validate, normalize, and the     *)
(* or-type's alternative matching.                                         *)
(***************************************************************************)
VARIABLES
    schemaData,   \* the Schema's canonical root subschema
    value,        \* the value the caller holds
    op,           \* the last call made: "none", "validate", "normalize", "match"
    result,       \* what Schema.validate / Schema.normalize did: outcome, fieldErrors, value
    match,        \* what _matchAlternative did: the alternative, the probes, the exception
    normalized,   \* TRUE while value is what a successful normalize returned
    input,        \* the value the last call was given
    options,      \* the options the caller passes to validate / normalize
    handlers,     \* the caller's own handler set for traverse / transform
    calls,        \* the handler invocations of the last synchronous walk, in order
    tasks,        \* transformAsync: the _transformSubschemaValueAsync calls made so far
    pending,      \* transformAsync: the handler promises not yet settled
    acalls,       \* transformAsync: the handler invocations so far, in order
    factory,      \* SchemaFactory._schemaTypes: the registered types, in for-in order
    registrations, \* the registerType calls made on the factory, in order
    definition,   \* the schema definition the caller wrote
    built,        \* the Schema made of the definition: its _schemaData, or the exception
    pathParts,    \* getObjectPath / setObjectPath: path.split('.')
    newValue      \* setObjectPath: the value to set

vars == <<schemaData, value, op, result, match, normalized, input, options,
          handlers, calls, tasks, pending, acalls,
          factory, registrations, definition, built, pathParts, newValue>>
\* the part of the state only a walk with the caller's handlers touches
walk == <<handlers, calls, tasks, pending, acalls>>
\* the part of the state only the construction of a Schema touches
construction == <<factory, registrations, definition, built>>
\* the part of the state only getObjectPath / setObjectPath touch
access == <<pathParts, newValue>>
\* no Schema constructed yet
NotBuilt == [state |-> "none", data |-> Undef, exc |-> "", skipNormalize |-> FALSE]

NoResult == [outcome |-> "none", errs |-> <<>>, v |-> Undef, log |-> <<>>]
NoMatch == [exc |-> "", idx |-> 0, alt |-> NoSchema, probes |-> <<>>]
NoHandlers ==
    [kind |-> "user", options |-> DefaultOptions, onField |-> FALSE,
     onUnknownField |-> FALSE, postField |-> FALSE, onSubschema |-> FALSE,
     on |-> <<>>, post |-> <<>>, unknown |-> <<>>, repl |-> Undef, touch |-> <<>>]

\* the options a caller of the model passes
OptionSets == {DefaultOptions, [DefaultOptions EXCEPT !.allowMissingFields = TRUE]}

Init ==
    /\ schemaData \in Schemas
    /\ value \in Values
    /\ options \in OptionSets
    /\ op = "none"
    /\ result = NoResult
    /\ match = NoMatch
    /\ normalized = FALSE
    /\ input = Undef
    /\ handlers = NoHandlers
    /\ calls = <<>>
    /\ tasks = <<>>
    /\ pending = {}
    /\ acalls = <<>>
    /\ factory = NewSchemaFactory
    /\ registrations = CoreSchemaTypes \o GeoSchemaTypes
    /\ definition = Undef
    /\ built = NotBuilt
    /\ pathParts = <<>>
    /\ newValue = Undef

\* a call that threw ends the caller's use of the value
Usable == result.outcome \in {"none", "ok"} /\ match.exc = ""

\* the caller's value after _matchAlternative: as the scoring loop left it, or as it
\* was when an alternative's checkTypeMatch threw
LeftWhenThrown(v, subschema, thrown) ==
    IF thrown = {} THEN LeftByScoring(subschema, v)
    ELSE SeenBy(subschema, v, CHOOSE i \in thrown : \A j \in thrown : i <= j)
\* the caller's value after _matchAlternative
LeftByMatchAlternative(v, subschema) ==
    LeftWhenThrown(v, subschema,
                   {i \in 1..Len(subschema.alternatives) : Scores(subschema, v)[i] = -1})
\* the caller's value after a walk that did not replace it: an or schema scores the
\* value it is given
LeftByWalk(v, subschema) ==
    IF subschema.type = "or" /\ ~IsMissing(v) THEN LeftByMatchAlternative(v, subschema) ELSE v

\* schema.validate(value)
Validate ==
    /\ Usable
    /\ op' = "validate"
    /\ input' = value
    /\ result' = InvokeSchemaValidate(schemaData, value, options)
    /\ value' = LeftByWalk(value, schemaData)
    /\ UNCHANGED <<schemaData, match, normalized, options, walk, construction, access>>

\* value = schema.normalize(value)
Normalize ==
    /\ Usable
    /\ op' = "normalize"
    /\ input' = value
    /\ result' = InvokeSchemaNormalize(schemaData, value, options)
    /\ value' = IF result'.outcome = "ok" THEN result'.v ELSE LeftByWalk(value, schemaData)
    /\ normalized' = (result'.outcome = "ok")
    /\ UNCHANGED <<schemaData, match, options, walk, construction, access>>

\* orType._matchAlternative(value, subschema, schema)
DoMatchAlternative ==
    /\ Usable
    /\ schemaData.type = "or"
    /\ op # "match"
    /\ op' = "match"
    /\ input' = value
    /\ match' = InvokeMatchAlternative(value, schemaData)
    /\ value' = LeftByMatchAlternative(value, schemaData)
    /\ UNCHANGED <<schemaData, result, normalized, options, walk, construction, access>>

Next == Validate \/ Normalize \/ DoMatchAlternative

Spec == Init /\ [][Next]_vars

\* C1: a value that normalize returned without throwing validates without throwing
C1_NormalizeThenValidate ==
    (op = "validate" /\ normalized) => result.outcome = "ok"
(***************************************************************************)
(* Properties of the or-type's alternative matching.                       *)
(***************************************************************************)
\* the checkTypeMatch score of each alternative of the or schema for the input
ScoreOf(i) == CheckTypeMatch(schemaData.alternatives[i], input)
Alternatives == 1..Len(schemaData.alternatives)
\* the alternatives attaining the highest score attained, when that score is nonzero
BestScored ==
    {i \in Alternatives : ScoreOf(i) > 0 /\ \A j \in Alternatives : ScoreOf(j) <= ScoreOf(i)}

\* C8: when exactly one alternative attains the highest nonzero score, that
\* alternative is returned and no validate / normalize probe is run
C8_UniqueBestChosen ==
    (op = "match" /\ Cardinality(BestScored) = 1) =>
        /\ match.exc = ""
        /\ match.idx \in BestScored
        /\ match.probes = <<>>

\* how each kind of probe of a tied alternative ends
StrictlyValidates(i) ==
    SchemaValidate(schemaData.alternatives[i], input, DefaultOptions).outcome = "ok"
Normalizes(i) ==
    SchemaNormalize(schemaData.alternatives[i], input, DefaultOptions).outcome = "ok"
NormalizesAllowingUnknown(i) ==
    SchemaNormalize(schemaData.alternatives[i], input,
                    [DefaultOptions EXCEPT !.allowUnknownFields = TRUE]).outcome = "ok"
First(S) == CHOOSE i \in S : \A j \in S : i <= j
\* the alternative the tie-break rules name
TieBreakChoice ==
    IF \E i \in BestScored : StrictlyValidates(i)
    THEN First({i \in BestScored : StrictlyValidates(i)})
    ELSE IF \E i \in BestScored : Normalizes(i)
    THEN First({i \in BestScored : Normalizes(i)})
    ELSE IF \E i \in BestScored : NormalizesAllowingUnknown(i)
    THEN First({i \in BestScored : NormalizesAllowingUnknown(i)})
    ELSE First(BestScored)

\* C9: when two or more alternatives tie at the highest nonzero score, the one
\* returned is the first that strictly validates, else the first that normalizes,
\* else the first that normalizes with unknown fields allowed, else the first tied
C9_TieBreakCascade ==
    (op = "match" /\ Cardinality(BestScored) >= 2) =>
        /\ match.exc = ""
        /\ match.idx = TieBreakChoice
        /\ match.alt = schemaData.alternatives[TieBreakChoice]

\* C10: when every alternative scores 0 for the value, alternatives[0] is returned
C10_AllZeroFirstAlternative ==
    (op = "match" /\ \A i \in Alternatives : ScoreOf(i) = 0) =>
        /\ match.exc = ""
        /\ match.idx = 1
        /\ match.alt = Head(schemaData.alternatives)
\* an or schema whose alternatives differ and all score 0, matched
C10_Witness ==
    /\ op = "match"
    /\ \A i \in Alternatives : ScoreOf(i) = 0
    /\ \E i \in Alternatives : schemaData.alternatives[i] # Head(schemaData.alternatives)
    /\ match.idx = 1
(***************************************************************************)
(* Properties of Schema.validate.                                          *)
(***************************************************************************)
\* the value fails the subschema's own checks: required, enum, the type's validate
InvalidAt(subschema, v) ==
    IF IsMissing(v) /\ IsMissing(subschema.default)
    THEN subschema.required /\ ~options.allowMissingFields
    ELSE LET w == IF IsMissing(v) THEN subschema.default ELSE v
         IN \/ subschema.enum # Undef /\ ~CheckEnum(w, subschema.enum)
            \/ TypeValidate(subschema, w, options) # ""
\* the subschema that governs the value: an or schema stands for its matching alternative
RECURSIVE ResolveAlternative(_, _)
ResolveAlternative(subschema, v) ==
    IF subschema.type = "or" /\ ~IsMissing(v) /\ MatchAlternative(v, subschema).exc = ""
    THEN ResolveAlternative(MatchAlternative(v, subschema).alt, v)
    ELSE subschema
\* the field is invalid by itself: it fails the checks of its subschema, or of
\* the alternative standing for it
RECURSIVE FieldInvalid(_, _)
FieldInvalid(subschema, v) ==
    IF subschema = NoSchema THEN v # Undef
    ELSE \/ InvalidAt(subschema, v)
         \/ /\ subschema.type = "or" /\ ~IsMissing(v) /\ MatchAlternative(v, subschema).exc = ""
            /\ FieldInvalid(MatchAlternative(v, subschema).alt, v)
\* the invalid-field reports of a sequence of children, joined
RECURSIVE MergeInvalid(_)
MergeInvalid(reports) ==
    IF reports = <<>> THEN [paths |-> <<>>, nested |-> FALSE]
    ELSE LET rest == MergeInvalid(Tail(reports))
         IN [paths |-> Head(reports).paths \o rest.paths,
             nested |-> Head(reports).nested \/ rest.nested]
\* the paths of the fields of v that are invalid by themselves, one entry per
\* field, and whether one of them lies under another
RECURSIVE InvalidFields(_, _, _)
InvalidFields(subschema, v, field) ==
    LET own == FieldInvalid(subschema, v)
        node == ResolveAlternative(subschema, v)
        typeOk == /\ node # NoSchema /\ ~IsMissing(v)
                  /\ TypeValidate(node, v, options) = ""
        keys == ListValueSubfields(v, node)
        missing == IF node.type = "object"
                   THEN SelectSeq(ListSchemaSubfields(node), LAMBDA k : ~InSeq(k, keys))
                   ELSE <<>>
        below ==
            IF ~typeOk THEN [paths |-> <<>>, nested |-> FALSE]
            ELSE CASE node.type = "arrayset" ->
                        MergeInvalid([i \in 1..Len(v.a) |->
                            InvalidFields(node.elements, v.a[i],
                                JoinPath(field, KeyText(GetElementKey(v.a[i], node))))])
                   [] node.type \in {"object", "array", "map"} ->
                        MergeInvalid(
                            [i \in 1..Len(keys) |->
                                InvalidFields(GetFieldSubschema(node, keys[i]),
                                              GetProp(v, keys[i]), JoinPath(field, keys[i]))]
                            \o [i \in 1..Len(missing) |->
                                InvalidFields(GetFieldSubschema(node, missing[i]),
                                              Undef, JoinPath(field, missing[i]))])
                   [] OTHER -> [paths |-> <<>>, nested |-> FALSE]
    IN [paths |-> (IF own THEN <<field>> ELSE <<>>) \o below.paths,
        nested |-> below.nested \/ (own /\ below.paths # <<>>)]
\* how many entries of the sequence equal x
Count(seq, x) == Cardinality({i \in 1..Len(seq) : seq[i] = x})

\* C2: validate reports every independently invalid field: N invalid fields, none
\* under another, give a ValidationError with exactly N fieldErrors, one per field,
\* each carrying the field's dot-separated path
C2_OneErrorPerInvalidField ==
    LET inv == InvalidFields(schemaData, input, "")
        reported == [i \in 1..Len(result.errs) |-> result.errs[i].field]
    IN (op = "validate" /\ result.outcome # "TypeError" /\ inv.paths # <<>> /\ ~inv.nested) =>
            /\ result.outcome = "ValidationError"
            /\ Len(reported) = Len(inv.paths)
            /\ \A i \in 1..Len(reported) : Count(reported, reported[i]) = Count(inv.paths, reported[i])
(***************************************************************************)
(* A caller walking a value with handlers of their own: traverse,          *)
(* traverseSchema, transform, and transformAsync one step at a time.       *)
(***************************************************************************)
\* how many paths a handler's table may single out
MaxMarks == 1

\* what a handler may do at a path it singles out
OnBehaviours == {"undef", "null", "repl", "stop", "set", "false", "true", "zero"}
PostBehaviours == {"undef", "repl"}
UnknownBehaviours == {"undef"}
Tables(paths, behaviours) ==
    UNION {[D -> behaviours] : D \in {D \in SUBSET paths : Cardinality(D) <= MaxMarks}}

NestedObject ==
    ObjectNode(<<Prop("a", ObjectNode(<<Prop("x", NumberType), Prop("y", StringType)>>)),
                 Prop("b", NumberType)>>)
ArrayAndOr ==
    ObjectNode(<<Prop("a", ArrayNode(NumberType)),
                 Prop("b", OrNode(<<StringType, ObjectNode(<<Prop("x", NumberType)>>)>>))>>)
KeyedSet ==
    ArraySetNode(ObjectNode(<<Prop("x", NumberType), Prop("y", StringType)>>), Str("x"))
\* the walks made: a schema, a value, the replacement the handlers may return, and
\* the paths their tables may single out
Walks ==
    {[schemaData |-> NestedObject,
      value |-> Obj(<<KV("a", Obj(<<KV("x", Num(1)), KV("y", Str("a"))>>)), KV("b", Num(MaxNum))>>),
      repl |-> Obj(<<KV("x", Num(MaxNum)), KV("w", Num(1))>>),
      paths |-> {"", "a", "a.x", "b"}, unknownPaths |-> {"a.w"}],
     [schemaData |-> NestedObject,
      value |-> Obj(<<KV("a", Obj(<<KV("x", Num(1)), KV("z", Num(0))>>))>>),
      repl |-> Obj(<<KV("z", Num(1))>>),
      paths |-> {"a", "a.y"}, unknownPaths |-> {"a.z"}],
     [schemaData |-> ArrayAndOr,
      value |-> Obj(<<KV("a", Arr(<<Num(1), Num(MaxNum)>>)), KV("b", Obj(<<KV("x", Num(1))>>))>>),
      repl |-> Arr(<<Num(0)>>),
      paths |-> {"a", "a.1", "b", "b.x"}, unknownPaths |-> {}],
     [schemaData |-> KeyedSet,
      value |-> Arr(<<Obj(<<KV("x", Num(1)), KV("y", Str("a"))>>),
                      Obj(<<KV("x", Num(MaxNum)), KV("y", Str("a"))>>)>>),
      repl |-> Obj(<<KV("x", Num(MaxNum))>>),
      paths |-> {"", "1", "1.y"}, unknownPaths |-> {}],
     [schemaData |-> KeyedSet,
      value |-> Arr(<<Obj(<<KV("x", Num(1)), KV("y", Str("a"))>>),
                      Obj(<<KV("x", Num(MaxNum)), KV("y", Str("a"))>>)>>),
      repl |-> Num(0),
      paths |-> {"1", "1.x", NumStr(MaxNum) \o ".x"}, unknownPaths |-> {}],
     [schemaData |-> ArraySetNode(NumberType, Undef),
      value |-> Arr(<<Num(1), Num(1), Num(MaxNum)>>),
      repl |-> Num(0),
      paths |-> {"", "1"}, unknownPaths |-> {}],
     [schemaData |-> MapNode(ArrayNode(StringType)),
      value |-> Obj(<<KV("a", Arr(<<Str("a")>>)), KV("b", Arr(<<>>))>>),
      repl |-> Arr(<<Str("a"), Str("")>>),
      paths |-> {"", "a", "a.0"}, unknownPaths |-> {}],
     [schemaData |-> OrNode(<<ObjectNode(<<Prop("a", NumberType)>>), ArrayNode(NumberType)>>),
      value |-> Arr(<<Num(1), Num(MaxNum)>>),
      repl |-> Obj(<<KV("a", Num(1)), KV("b", Num(1))>>),
      paths |-> {"", "0", "a"}, unknownPaths |-> {"b"}],
     [schemaData |-> OrNode(<<BooleanType, NumberType>>),
      value |-> Num(MaxNum), repl |-> Bool(TRUE),
      paths |-> {""}, unknownPaths |-> {}]}
\* the handler sets a caller may pass for a walk: a handler that is absent has
\* nothing to single out
HandlerSets(w) ==
    {h \in [kind : {"user"}, options : {DefaultOptions}, repl : {w.repl},
            onField : BOOLEAN, onUnknownField : BOOLEAN, postField : BOOLEAN,
            onSubschema : {TRUE},
            on : Tables(w.paths, OnBehaviours),
            post : Tables(w.paths, PostBehaviours),
            unknown : Tables(w.unknownPaths, UnknownBehaviours),
            touch : {<<>>}] :
        /\ h.onField \/ h.on = <<>>
        /\ h.postField \/ h.post = <<>>
        /\ h.onUnknownField \/ h.unknown = <<>>}

InitT ==
    /\ \E w \in Walks :
        /\ schemaData = w.schemaData
        /\ value = w.value
        /\ handlers \in HandlerSets(w)
    /\ options = DefaultOptions
    /\ op = "none"
    /\ result = NoResult
    /\ match = NoMatch
    /\ normalized = FALSE
    /\ input = Undef
    /\ calls = <<>>
    /\ tasks = <<>>
    /\ pending = {}
    /\ acalls = <<>>
    /\ factory = NewSchemaFactory
    /\ registrations = CoreSchemaTypes \o GeoSchemaTypes
    /\ definition = Undef
    /\ built = NotBuilt
    /\ pathParts = <<>>
    /\ newValue = Undef

\* how a walk ended: 'ok' with the value it returned, or the exception it threw
WalkResult(acc, v) ==
    [outcome |-> IF acc.exc # "" THEN acc.exc ELSE "ok", errs |-> acc.errs, v |-> v,
     sets |-> acc.sets]

\* schema.traverse(value, handlers)
Traverse ==
    /\ op = "none"
    /\ op' = "traverse"
    /\ input' = value
    /\ \E acc \in {InvokeTraverseSubschemaValue(value, schemaData, "", handlers, EmptyAcc)} :
        /\ calls' = acc.log
        /\ result' = WalkResult(acc, Undef)
    /\ UNCHANGED <<schemaData, value, match, normalized, options, handlers, tasks, pending, acalls, construction, access>>

\* schema.traverseSchema(handlers)
TraverseSchema ==
    /\ op = "none"
    /\ op' = "traverseSchema"
    /\ input' = Undef
    /\ \E acc \in {InvokeTraverseSubschema(schemaData, "", handlers, EmptyAcc)} :
        /\ calls' = acc.log
        /\ result' = WalkResult(acc, Undef)
    /\ UNCHANGED <<schemaData, value, match, normalized, options, handlers, tasks, pending, acalls, construction, access>>

\* value = schema.transform(value, handlers)
Transform ==
    /\ op = "none"
    /\ op' = "transform"
    /\ input' = value
    /\ \E r \in {InvokeTransformSubschemaValue(value, schemaData, "", handlers, EmptyAcc)} :
        /\ calls' = r.acc.log
        /\ result' = WalkResult(r.acc, r.v)
        /\ value' = r.v
    /\ UNCHANGED <<schemaData, match, normalized, options, handlers, tasks, pending, acalls, construction, access>>

(***************************************************************************)
(* schema.transformAsync(value, handlers).  Every call of                  *)
(* _transformSubschemaValueAsync is a task, named by its position under    *)
(* the root call; a handler's promise stays pending until it settles.      *)
(***************************************************************************)
NewTask(v, subschema, field) ==
    [value |-> v, subschema |-> subschema, field |-> field,
     st |-> "start",      \* start, onField, check, loop, post, postField, unknown, done, rejected
     newValue |-> v,      \* the promise chain's current value
     todo |-> <<>>,       \* the subfields subschemaType.transformAsync goes through
     i |-> 1,             \* the subfield it is at
     batch |-> <<>>,      \* newValueBatch (object) / newArr (arrayset)
     exc |-> ""]
SetTask(id, t) == [x \in DOMAIN tasks |-> IF x = id THEN t ELSE tasks[x]]
AddTask(id, t) == [x \in DOMAIN tasks \cup {id} |-> IF x = id THEN t ELSE tasks[x]]
Settled(t) == t.st \in {"done", "rejected"}

\* one subfield of a container: its key, its value and subschema, its path, and
\* which loop of transformAsync visits it
Item(kind, k, v, subschema, field) ==
    [kind |-> kind, k |-> k, v |-> v, s |-> subschema, f |-> JoinPath(field, k)]
\* the subfields SchemaType.transformAsync / SchemaTypeArraySet.transformAsync go
\* through, in order: the value's entries as captured, then the missing schema keys
Subfields(v, subschema, field) ==
    IF subschema.type = "arrayset"
    THEN IF ~IsArray(v) THEN <<>>
         ELSE [i \in 1..Len(v.a) |->
                 Item("element", KeyText(GetElementKey(v.a[i], subschema)), v.a[i],
                      subschema.elements, field)]
    ELSE IF ~(DefaultIsContainer(subschema.type) /\ Truthy(v)) THEN <<>>
    ELSE LET entries == ListValueSubfieldEntries(v, subschema)
             Missing(k) == \A i \in 1..Len(entries) : entries[i].k # k
             missing == IF ContainerSchemaKeysMatchValueKeys(subschema.type)
                        THEN SelectSeq(ListSchemaSubfields(subschema), Missing)
                        ELSE <<>>
         IN [i \in 1..Len(entries) |->
                Item("entry", entries[i].k, entries[i].v,
                     GetFieldSubschema(subschema, entries[i].k), field)]
            \o [i \in 1..Len(missing) |->
                Item("batch", missing[i], Undef,
                     GetFieldSubschema(subschema, missing[i]), field)]

\* await: the caller goes on once the promise it waits for has settled
Unawaited(t) == TRUE
Await(t) == Settled(t)

\* schema.transformAsync(value, handlers), on a copy of what transform was given
TransformAsync ==
    /\ op = "transform"
    /\ op' = "transformAsync"
    /\ tasks' = [id \in {<<>>} |-> NewTask(input, schemaData, "")]
    /\ UNCHANGED <<schemaData, value, result, match, normalized, input, options,
                   handlers, calls, pending, acalls, construction, access>>

\* a handler is invoked and its promise is pending
InvokeHandler(id, t, h, st) ==
    /\ tasks' = SetTask(id, [t EXCEPT !.st = st])
    /\ pending' = pending \cup {id}
    /\ acalls' = Append(acalls,
                    Invocation(h, t.field, IF h = "postField" THEN t.newValue ELSE t.value,
                               t.subschema))
\* a step that invokes no handler
Step(id, t) ==
    /\ tasks' = SetTask(id, t)
    /\ UNCHANGED <<pending, acalls>>
frame == <<schemaData, value, op, result, match, normalized, input, options, handlers, calls,
           factory, registrations, definition, built, pathParts, newValue>>

\* _transformSubschemaValueAsync is entered: onField or onUnknownField is invoked
AsyncStart(id) ==
    /\ tasks[id].st = "start"
    /\ IF tasks[id].subschema # NoSchema
       THEN IF handlers.onField
            THEN InvokeHandler(id, tasks[id], "onField", "onField")
            ELSE Step(id, [tasks[id] EXCEPT !.st = "check"])
       ELSE IF handlers.onUnknownField /\ tasks[id].value # Undef
            THEN InvokeHandler(id, tasks[id], "onUnknownField", "unknown")
            ELSE Step(id, [tasks[id] EXCEPT !.st = "done"])
    /\ UNCHANGED frame

\* the pending handler promise of a task resolves with what the handler returns
AsyncSettle(id) ==
    /\ id \in pending
    /\ pending' = pending \ {id}
    /\ tasks' = SetTask(id,
            CASE tasks[id].st = "onField" ->
                    [tasks[id] EXCEPT !.st = "check",
                        !.newValue = UserReturn(BehaviourAt(handlers.on, tasks[id].field),
                                                tasks[id].value, handlers.repl)]
              [] tasks[id].st = "postField" ->
                    [tasks[id] EXCEPT !.st = "done",
                        !.newValue = UserReturn(BehaviourAt(handlers.post, tasks[id].field),
                                                tasks[id].newValue, handlers.repl)]
              [] OTHER ->
                    [tasks[id] EXCEPT !.st = "done",
                        !.newValue = UserReturn(BehaviourAt(handlers.unknown, tasks[id].field),
                                                tasks[id].value, handlers.repl)])
    /\ UNCHANGED <<acalls, frame>>

\* the chain's second step: a stop sentinel ends the field with the value it names,
\* a non-null value is handed to subschemaType.transformAsync, null / undefined pass
AsyncCheck(id) ==
    /\ tasks[id].st = "check"
    /\ IF IsStopTransform(tasks[id].newValue)
       THEN Step(id, [tasks[id] EXCEPT !.st = "post",
                        !.newValue = IF tasks[id].newValue.setNewValue
                                     THEN tasks[id].newValue.newValue ELSE tasks[id].value])
       ELSE IF IsMissing(tasks[id].newValue)
       THEN Step(id, [tasks[id] EXCEPT !.st = "post"])
       ELSE IF tasks[id].subschema.type = "or"
       THEN \E m \in {InvokeMatchAlternative(tasks[id].newValue, tasks[id].subschema)} :
               IF m.exc # ""
               THEN Step(id, [tasks[id] EXCEPT !.st = "rejected", !.exc = m.exc])
               ELSE Step(id, [tasks[id] EXCEPT !.st = "loop",
                                !.todo = <<[kind |-> "alt", k |-> "", v |-> tasks[id].newValue,
                                            s |-> m.alt, f |-> tasks[id].field]>>])
       ELSE Step(id, [tasks[id] EXCEPT !.st = "loop",
                        !.todo = Subfields(tasks[id].newValue, tasks[id].subschema,
                                           tasks[id].field)])
    /\ UNCHANGED frame

\* transformAsync calls _transformSubschemaValueAsync for the subfield it is at
AsyncSpawn(id) ==
    /\ tasks[id].st = "loop"
    /\ tasks[id].i <= Len(tasks[id].todo)
    /\ Append(id, tasks[id].i) \notin DOMAIN tasks
    /\ tasks' = AddTask(Append(id, tasks[id].i),
                        NewTask(tasks[id].todo[tasks[id].i].v, tasks[id].todo[tasks[id].i].s,
                                tasks[id].todo[tasks[id].i].f))
    /\ UNCHANGED <<pending, acalls, frame>>

\* what transformAsync does with the subfield's new value once it has it
Joined(t, item, c) ==
    IF c.st = "rejected" THEN [t EXCEPT !.st = "rejected", !.exc = c.exc]
    ELSE CASE item.kind = "alt" -> [t EXCEPT !.i = @ + 1, !.newValue = c.newValue]
           [] item.kind = "entry" ->
                [t EXCEPT !.i = @ + 1,
                    !.newValue = SetValueSubfield(Touched(handlers, item.f, @), t.subschema,
                                                  item.k, c.newValue)]
           [] item.kind = "batch" ->
                [t EXCEPT !.i = @ + 1, !.batch = Append(@, KV(item.k, c.newValue))]
           [] OTHER ->
                [t EXCEPT !.i = @ + 1,
                    !.batch = IF c.newValue # Undef THEN Append(@, c.newValue) ELSE @]
\* the awaited subfield promise has settled: transformAsync resumes
AsyncJoin(id) ==
    /\ tasks[id].st = "loop"
    /\ tasks[id].i <= Len(tasks[id].todo)
    /\ Append(id, tasks[id].i) \in DOMAIN tasks
    /\ Await(tasks[Append(id, tasks[id].i)])
    /\ Step(id, Joined(tasks[id], tasks[id].todo[tasks[id].i], tasks[Append(id, tasks[id].i)]))
    /\ UNCHANGED frame

\* transformAsync returns the container: the batch is written, the arrayset resynced
AsyncReturn(id) ==
    /\ tasks[id].st = "loop"
    /\ tasks[id].i > Len(tasks[id].todo)
    /\ Step(id, [tasks[id] EXCEPT !.st = "post",
                    !.newValue = IF tasks[id].subschema.type = "arrayset" /\ IsArray(@)
                                 THEN Arr(tasks[id].batch)
                                 ELSE SetValueSubfieldBatch(@, tasks[id].subschema,
                                                            tasks[id].batch)])
    /\ UNCHANGED frame

\* the chain's last step: postField, when given, is invoked
AsyncPost(id) ==
    /\ tasks[id].st = "post"
    /\ IF handlers.postField
       THEN InvokeHandler(id, tasks[id], "postField", "postField")
       ELSE Step(id, [tasks[id] EXCEPT !.st = "done"])
    /\ UNCHANGED frame

NextT ==
    \/ Traverse
    \/ TraverseSchema
    \/ Transform
    \/ TransformAsync
    \/ \E id \in DOMAIN tasks : AsyncStart(id)
    \/ \E id \in DOMAIN tasks : AsyncSettle(id)
    \/ \E id \in DOMAIN tasks : AsyncCheck(id)
    \/ \E id \in DOMAIN tasks : AsyncSpawn(id)
    \/ \E id \in DOMAIN tasks : AsyncJoin(id)
    \/ \E id \in DOMAIN tasks : AsyncReturn(id)
    \/ \E id \in DOMAIN tasks : AsyncPost(id)

SpecTransform == InitT /\ [][NextT]_vars

(***************************************************************************)
(* Properties of transformAsync against transform.                         *)
(***************************************************************************)
IsPrefix(a, b) == Len(a) <= Len(b) /\ SubSeq(b, 1, Len(a)) = a
\* a is a sibling task enumerated before b
EarlierSibling(a, b) ==
    /\ a # <<>> /\ Len(a) = Len(b)
    /\ SubSeq(a, 1, Len(a) - 1) = SubSeq(b, 1, Len(b) - 1)
    /\ a[Len(a)] < b[Len(b)]

\* C3: in transformAsync at most one handler promise is pending at any moment, and
\* once a field's call has been made every call in the subtree of each sibling
\* enumerated before it has settled
C3_SiblingsOneAtATime ==
    /\ Cardinality(pending) <= 1
    /\ \A a \in DOMAIN tasks, b \in DOMAIN tasks :
        EarlierSibling(a, b) => \A d \in DOMAIN tasks : IsPrefix(a, d) => Settled(tasks[d])
\* a later sibling's handler is pending after an earlier sibling with a nested
\* descent of its own
C3_Witness ==
    \E a \in DOMAIN tasks, b \in pending :
        /\ EarlierSibling(a, b)
        /\ \E d \in DOMAIN tasks : IsPrefix(a, d) /\ d # a /\ tasks[d].st = "done"

\* C4: once transformAsync has settled, its handler invocations are those of
\* transform on the same input, in the same order, and it resolves to the value
\* transform returned (or rejects where transform threw)
C4_AsyncMatchesSync ==
    (op = "transformAsync" /\ Settled(tasks[<<>>])) =>
        /\ acalls = calls
        /\ (tasks[<<>>].st = "done") = (result.outcome = "ok")
        /\ tasks[<<>>].st = "done" => tasks[<<>>].newValue = result.v

(***************************************************************************)
(* Properties of the order of handler calls.                               *)
(***************************************************************************)
\* the path components the walks can produce
WalkKeys == {"a", "b", "x", "y", "z", "w", "$"} \cup {NumStr(n) : n \in 0..MaxNum}
IsChildPath(p, q) == \E k \in WalkKeys : q = JoinPath(p, k)
StrictlyUnder(p, q) ==
    \E k \in WalkKeys : q = JoinPath(p, k) \/ \E k2 \in WalkKeys : q = JoinPath(JoinPath(p, k), k2)
Latest(S) == CHOOSE i \in S : \A j \in S : j <= i
\* what the caller's transform onField returned for the invocation e
Returned(e) == UserReturn(BehaviourAt(handlers.on, e.field), e.value, handlers.repl)
\* the onField invocations before log[j] that log[j]'s field hangs under: of the
\* parent field, or of the or node whose alternative it is
Governing(log, j) ==
    {i \in 1..(j - 1) :
        /\ log[i].h = "onField"
        /\ \/ IsChildPath(log[i].field, log[j].field)
           \/ log[i].field = log[j].field /\ log[i].subschema.type = "or"}

Stops(field) == handlers.onField /\ BehaviourAt(handlers.on, field) \in {"stop", "set"}
\* the value a field whose onField stopped must end with
StoppedValue(field, v) ==
    IF BehaviourAt(handlers.on, field) = "set" THEN handlers.repl ELSE v
\* no handler is invoked after log[j] for a descendant of its field
NoDescendantCalls(log, j) ==
    \A k \in (j + 1)..Len(log) :
        /\ ~StrictlyUnder(log[j].field, log[k].field)
        /\ log[k].field = log[j].field => log[k].h = "postField"
\* whether the walk invokes a handler for a subfield
Visitable(item) ==
    IF item.s # NoSchema THEN handlers.onField
    ELSE handlers.onUnknownField /\ item.v # Undef
\* every subfield of the parent of log[j]'s field got its handler call
SiblingsVisited(log, j) ==
    \A i \in Governing(log, j) :
        (i = Latest(Governing(log, j)) /\ log[i].subschema.type # "or") =>
            \A item \in {Subfields(Returned(log[i]), log[i].subschema, log[i].field)[n] :
                            n \in 1..Len(Subfields(Returned(log[i]), log[i].subschema,
                                                   log[i].field))} :
                Visitable(item) =>
                    \E k \in (i + 1)..Len(log) :
                        /\ log[k].field = item.f
                        /\ log[k].value = item.v
                        /\ log[k].h = IF item.s = NoSchema THEN "onUnknownField" ELSE "onField"

\* C5: in transform and in transformAsync, a field whose onField returned the stop
\* sentinel ends with the value it had, one whose onField returned stop-and-set ends
\* with the replacement; no handler is invoked for a descendant of it, and every
\* sibling of it still gets its handler call
C5_StopKeepsOrSets ==
    /\ (op \in {"transform", "transformAsync"} /\ result.outcome = "ok") =>
        \A j \in 1..Len(calls) :
            (calls[j].h = "onField" /\ Stops(calls[j].field)) =>
                /\ TransformSubschemaValue(calls[j].value, calls[j].subschema, calls[j].field,
                                           handlers, EmptyAcc).v
                      = StoppedValue(calls[j].field, calls[j].value)
                /\ NoDescendantCalls(calls, j)
                /\ SiblingsVisited(calls, j)
    /\ (op = "transformAsync" /\ tasks[<<>>].st = "done") =>
        /\ \A id \in DOMAIN tasks :
            (tasks[id].subschema # NoSchema /\ Stops(tasks[id].field)) =>
                /\ tasks[id].newValue = StoppedValue(tasks[id].field, tasks[id].value)
                /\ \A d \in DOMAIN tasks : IsPrefix(id, d) => d = id
        /\ \A j \in 1..Len(acalls) :
            (acalls[j].h = "onField" /\ Stops(acalls[j].field)) =>
                NoDescendantCalls(acalls, j) /\ SiblingsVisited(acalls, j)

\* C6: in traverse and in transform every handler call for a field below the root
\* comes after onField of the field it hangs under, and in transform the field and
\* its value are a subfield of what that onField returned
C6_PreOrderFromReturnedValue ==
    (op \in {"traverse", "transform"} /\ handlers.onField) =>
        \A j \in 1..Len(calls) :
            /\ calls[j].field # "" => Governing(calls, j) # {}
            /\ (op = "transform" /\ calls[j].field # ""
                    /\ calls[j].h \in {"onField", "onUnknownField"}) =>
                IF calls[Latest(Governing(calls, j))].subschema.type = "or"
                THEN calls[j].value = Returned(calls[Latest(Governing(calls, j))])
                ELSE \E n \in 1..Len(Subfields(Returned(calls[Latest(Governing(calls, j))]),
                                              calls[Latest(Governing(calls, j))].subschema,
                                              calls[Latest(Governing(calls, j))].field)) :
                        /\ Subfields(Returned(calls[Latest(Governing(calls, j))]),
                                     calls[Latest(Governing(calls, j))].subschema,
                                     calls[Latest(Governing(calls, j))].field)[n].f
                              = calls[j].field
                        /\ Subfields(Returned(calls[Latest(Governing(calls, j))]),
                                     calls[Latest(Governing(calls, j))].subschema,
                                     calls[Latest(Governing(calls, j))].field)[n].v
                              = calls[j].value
\* transform has called a handler for a subfield of a replacement onField returned
C6_Witness ==
    /\ op = "transform"
    /\ \E j \in 1..Len(calls) :
        /\ calls[j].h \in {"onField", "onUnknownField"}
        /\ calls[j].value # Undef
        /\ \E i \in Governing(calls, j) :
            /\ BehaviourAt(handlers.on, calls[i].field) = "repl"
            /\ IsChildPath(calls[i].field, calls[j].field)

\* the same walk with handlers that single out no path, so that nothing is pruned
AllContinue == [handlers EXCEPT !.on = <<>>]
FullWalk ==
    IF op = "traverse"
    THEN TraverseSubschemaValue(input, schemaData, "", AllContinue, EmptyAcc)
    ELSE TraverseSubschema(schemaData, "", AllContinue, EmptyAcc)
\* x is a call for a descendant of the node e was called for: a field below it,
\* or an alternative of it when it is an or node
InSubtree(e, x) ==
    StrictlyUnder(e.field, x.field) \/ (e.subschema.type = "or" /\ x.field = e.field)
RECURSIVE DropSubtree(_, _)
DropSubtree(e, rest) ==
    IF rest # <<>> /\ InSubtree(e, Head(rest)) THEN DropSubtree(e, Tail(rest)) ELSE rest
RECURSIVE Pruned(_)
\* the calls left of a full walk when each node whose handler returns false loses
\* its descendants
Pruned(log) ==
    IF log = <<>> THEN <<>>
    ELSE IF Head(log).h \in {"onField", "onSubschema"}
            /\ BehaviourAt(handlers.on, Head(log).field) = "false"
    THEN <<Head(log)>> \o Pruned(DropSubtree(Head(log), Tail(log)))
    ELSE <<Head(log)>> \o Pruned(Tail(log))

\* C7: in traverseSchema and in traverse the handler calls made are those of the
\* full walk, in its order, less the descendants of each node whose handler returned
\* exactly false; returning true, 0, undefined or anything else prunes nothing
C7_FalsePrunesSubtreeOnly ==
    (op \in {"traverse", "traverseSchema"} /\ FullWalk.exc = "") =>
        calls = Pruned(FullWalk.log)
\* a handler returned false, its descendants were skipped and a later node visited
C7_Witness ==
    /\ op \in {"traverse", "traverseSchema"}
    /\ FullWalk.exc = ""
    /\ Len(calls) < Len(FullWalk.log)
    /\ \E j \in 1..(Len(calls) - 1) : BehaviourAt(handlers.on, calls[j].field) = "false"
(***************************************************************************)
(* Properties of Schema.normalize on array sets.                           *)
(***************************************************************************)
\* two elements of the array have the same computed key
HasDuplicateKeys(elems, subschema) ==
    \E i \in 1..Len(elems), j \in 1..Len(elems) :
        /\ i < j /\ GetElementKey(elems[i], subschema) # Undef
        /\ GetElementKey(elems[i], subschema) = GetElementKey(elems[j], subschema)
RECURSIVE FirstOccurrences(_, _, _)
\* the elements whose computed key no earlier element has, in their order (an
\* undefined slot is no element)
FirstOccurrences(elems, seen, subschema) ==
    IF elems = <<>> THEN <<>>
    ELSE IF Head(elems) = Undef \/ GetElementKey(Head(elems), subschema) \in seen
    THEN FirstOccurrences(Tail(elems), seen, subschema)
    ELSE <<Head(elems)>> \o FirstOccurrences(Tail(elems),
                seen \cup {GetElementKey(Head(elems), subschema)}, subschema)

\* C11: normalize of an array-set value in which computed keys repeat returns an
\* array with exactly one element per distinct key, no two of its elements having
\* the same computed key: the first occurrence of each key, normalized, in
\* first-occurrence order
C11_ArraySetDedup ==
    (/\ op = "normalize" /\ schemaData.type = "arrayset" /\ IsArray(input)
     /\ HasDuplicateKeys(input.a, schemaData) /\ result.outcome = "ok") =>
        /\ IsArray(result.v)
        /\ ~HasDuplicateKeys(result.v.a, schemaData)
        /\ Len(result.v.a) = Len(FirstOccurrences(input.a, {}, schemaData))
        /\ \A i \in 1..Len(result.v.a) :
            result.v.a[i] = SchemaNormalize(schemaData.elements,
                                FirstOccurrences(input.a, {}, schemaData)[i], options).v
(***************************************************************************)
(* Properties of transform on array sets and on key/value containers.      *)
(***************************************************************************)
\* what transform makes of one element of the array set at the root
NewElement(el) ==
    TransformSubschemaValue(el, schemaData.elements,
                            KeyText(GetElementKey(el, schemaData)), handlers, EmptyAcc).v
NewElements == [i \in 1..Len(input.a) |-> NewElement(input.a[i])]
\* the handlers rewrote the subfield the key of element i is computed from
KeyRewritten(i) ==
    /\ NewElements[i] # Undef
    /\ GetElementKey(NewElements[i], schemaData) # GetElementKey(input.a[i], schemaData)
Defined(x) == x # Undef

\* C12: when transform runs over an array set and a handler rewrites the subfield
\* the element key is computed from, each rewritten element replaces its original in
\* place: the result has as many elements as the input less those whose handler
\* returned undefined, and it does not hold the old version of a rewritten element
\* beside the new one
C12_KeyRewriteInPlace ==
    (/\ op = "transform" /\ schemaData.type = "arrayset" /\ IsArray(input)
     /\ result.outcome = "ok"
     /\ BehaviourAt(handlers.on, "") = "keep" /\ BehaviourAt(handlers.post, "") = "keep") =>
        /\ IsArray(result.v)
        /\ Len(result.v.a)
              = Len(input.a) - Cardinality({i \in 1..Len(input.a) : NewElements[i] = Undef})
        /\ result.v.a = SelectSeq(NewElements, Defined)
        /\ \A i \in 1..Len(input.a) :
            KeyRewritten(i) =>
                Count(result.v.a, input.a[i])
                    = Cardinality({j \in 1..Len(input.a) : NewElements[j] = input.a[i]})
\* onField rewrote the key subfield of an element and the array kept its length
C12_Witness ==
    /\ op = "transform" /\ schemaData.type = "arrayset" /\ result.outcome = "ok"
    /\ BehaviourAt(handlers.on, "1.x") = "repl"
    /\ KeyRewritten(1)
    /\ Len(result.v.a) = Len(input.a)
    /\ ~InSeq(input.a[1], result.v.a)
(***************************************************************************)
(* Properties of normalize and validate: undefined elements, missing and   *)
(* required fields, defaults.                                              *)
(***************************************************************************)
\* C17: for an array schema, Schema.normalize of an array value that holds a literal
\* undefined element throws a ValidationError rather than returning a compacted array
C17_UndefinedElementRejected ==
    (/\ op = "normalize" /\ schemaData.type = "array" /\ IsArray(input)
     /\ \E i \in 1..Len(input.a) : input.a[i] = Undef) =>
        result.outcome = "ValidationError"

\* the properties the object schema at the root declares as required, without a
\* default, and that the value given has no key for
AbsentRequired ==
    IF schemaData.type = "object" /\ IsPlainObject(input)
    THEN {i \in 1..Len(schemaData.properties) :
            /\ schemaData.properties[i].s.required
            /\ schemaData.properties[i].s.default = Undef
            /\ ~HasKey(input, schemaData.properties[i].k)}
    ELSE {}
\* the errors reported at a path
ErrorsAt(field) == SelectSeq(result.errs, LAMBDA e : e.field = field)

\* C18: a property the object schema declares and the value lacks is visited exactly
\* once with value undefined: normalizing a value that lacks a required property
\* without default gives a ValidationError with exactly one error at the property's
\* path, a required error; with allowMissingFields no error is reported there, and
\* the call, when nothing else fails, succeeds and leaves the property absent.  A call
\* that an exception other than a FieldError ended (an inline refinement's Error, which
\* aborts the walk where it is thrown) is not one the statement is about
C18_MissingRequiredVisitedOnce ==
    (op = "normalize" /\ result.outcome \in {"ok", "ValidationError"}) =>
        \A i \in AbsentRequired :
            LET k == schemaData.properties[i].k
            IN IF options.allowMissingFields
               THEN /\ ErrorsAt(k) = <<>>
                    /\ result.errs = <<>> => (result.outcome = "ok" /\ ~HasKey(result.v, k))
               ELSE /\ result.outcome = "ValidationError"
                    /\ Len(ErrorsAt(k)) = 1
                    /\ ErrorsAt(k)[1].code = "required"
\* normalize of an object lacking its one required property reported one error
C18_Witness ==
    /\ op = "normalize" /\ AbsentRequired # {} /\ ~options.allowMissingFields
    /\ input = Obj(<<>>)
    /\ Len(result.errs) = 1
    /\ result.errs[1].code = "required"

\* the fields Schema.validate is given that are required, declare a default, and are
\* missing (undefined or null) in the value: the root, or a property of the root object
MissingWithDefault ==
    (IF schemaData.required /\ ~IsMissing(schemaData.default) /\ IsMissing(input)
     THEN {""} ELSE {})
    \cup (IF schemaData.type = "object" /\ IsPlainObject(input)
          THEN {schemaData.properties[i].k : i \in
                   {j \in 1..Len(schemaData.properties) :
                       /\ schemaData.properties[j].s.required
                       /\ ~IsMissing(schemaData.properties[j].s.default)
                       /\ IsMissing(GetProp(input, schemaData.properties[j].k))}}
          ELSE {})

\* C19: Schema.validate reports a required error for a field that is marked required
\* and whose value is missing (undefined or null) even when the field's subschema
\* declares a default value
C19_RequiredDespiteDefault ==
    (op = "validate" /\ ~options.allowMissingFields) =>
        \A k \in MissingWithDefault :
            /\ result.outcome = "ValidationError"
            /\ \E i \in 1..Len(result.errs) :
                    result.errs[i].field = k /\ result.errs[i].code = "required"

\* C20: in transform, when the handler for a field of a key/value container (object
\* or map) returns undefined, the field is deleted: after transform the container has
\* no own key for that field
C20_UndefinedDeletesField ==
    (/\ op = "transform" /\ schemaData.type \in {"object", "map"} /\ IsPlainObject(input)
     /\ result.outcome = "ok" /\ handlers.onField
     /\ BehaviourAt(handlers.on, "") = "keep" /\ handlers.post = <<>>) =>
        \A k \in WalkKeys :
            (/\ HasKey(input, k) /\ GetFieldSubschema(schemaData, k) # NoSchema
             /\ BehaviourAt(handlers.on, k) = "undef") =>
                IsPlainObject(result.v) /\ ~HasKey(result.v, k)
(***************************************************************************)
(* A caller registering schema types and building a Schema of a            *)
(* definition: registerType, createSchema with and without skipNormalize,  *)
(* and Schema.normalizeSchema called again.                                *)
(***************************************************************************)
\* how many types the caller registers on top of the factory's own
MaxPlugins == 1
\* the names a caller registers a type under, and the shorthands the caller's
\* primitive types claim
PluginNames == {"custom", "7", "string"}
PluginShorthands == {{"Custom"}, {"String"}, {"Custom", "Number"}}

Tagged(type, params) == Obj(<<KV("type", type)>> \o params)
\* declarations without nested declarations, well formed or not
LeafDeclarations ==
    {Fn("String"), Fn("Number"), Fn("Date"), Fn("Boolean"), Fn("Mixed"), Fn("Buffer"),
     Fn("Custom"), Fn("Object"), Null, Num(1),
     Str("string"), Str("geopoint"), Str("custom"), Str("7"), Str("nosuchtype"), Str("object"),
     Tagged(Fn("String"), <<KV("required", Bool(TRUE))>>),
     Tagged(Fn("String"), <<KV("match", RegExpValue("a"))>>),
     Tagged(Str("string"), <<KV("match", Str("a"))>>),
     Tagged(Fn("Number"), <<KV("min", Num(1)), KV("max", Num(MaxNum))>>),
     Tagged(Fn("Number"), <<KV("min", Str("abc"))>>),
     Tagged(Str("number"), <<KV("max", Obj(<<>>))>>),
     Tagged(Fn("Date"), <<KV("default", Fn("Date.now"))>>),
     Tagged(Str("date"), <<KV("min", Str("1970-01-01")), KV("max", Num(MaxNum))>>),
     Tagged(Str("date"), <<KV("min", DateValue(TRUE, 0))>>),
     Tagged(Fn("Date"), <<KV("min", Str("abc"))>>),
     Tagged(Fn("Date"), <<KV("max", DateValue(FALSE, 0))>>),
     Tagged(Str("date"), <<KV("max", Str(""))>>),
     Tagged(Fn("Custom"), <<>>), Tagged(Fn("Object"), <<>>),
     Tagged(Str("custom"), <<>>), Tagged(Str("nosuchtype"), <<>>),
     Tagged(Str("object"), <<>>), Tagged(Str("array"), <<>>), Tagged(Str("arrayset"), <<>>),
     Tagged(Str("map"), <<>>), Tagged(Str("or"), <<>>),
     Tagged(Str("object"), <<KV("properties", Arr(<<Fn("String")>>))>>),
     Tagged(Str("or"), <<KV("alternatives", Arr(<<Fn("String")>>))>>),
     Obj(<<>>), Arr(<<>>), Arr(<<Fn("String"), Fn("Number")>>)}
\* what the declarations of the model nest
NestedDeclarations ==
    {d \in LeafDeclarations :
        d \in {Fn("String"), Fn("Custom"), Fn("Object"), Str("number"), Str("nosuchtype"),
               Tagged(Fn("String"), <<KV("match", RegExpValue("a"))>>),
               Tagged(Str("date"), <<KV("min", Str("1970-01-01")), KV("max", Num(MaxNum))>>),
               Tagged(Fn("Date"), <<KV("min", Str("abc"))>>),
               Tagged(Fn("Number"), <<KV("min", Str("abc"))>>),
               Tagged(Str("array"), <<>>), Obj(<<>>)}}
         \cup {Obj(<<KV("x", Fn("Number"))>>), Arr(<<Fn("Date")>>),
               Tagged(Str("map"), <<KV("values", Arr(<<Fn("String")>>))>>)}
ContainerDeclarations ==
    {Obj(<<KV("a", x)>>) : x \in NestedDeclarations}
        \cup {Obj(<<KV("a", x), KV("b", y)>>) :
                x \in NestedDeclarations, y \in {Fn("Number"), Fn("Object"), Arr(<<Fn("String")>>)}}
        \cup {Arr(<<x>>) : x \in NestedDeclarations}
        \cup {Tagged(x, <<KV("required", Bool(TRUE))>>) :
                x \in {Arr(<<Fn("String")>>), Obj(<<KV("a", Fn("Custom"))>>),
                       Obj(<<KV("type", Fn("String"))>>)}}
        \cup {Tagged(Str("object"), <<KV("properties", Obj(<<KV("a", x)>>))>>) :
                x \in NestedDeclarations}
        \cup {Tagged(Str("array"), <<KV("elements", x)>>) : x \in NestedDeclarations}
        \cup {Tagged(Str("map"), <<KV("values", x)>>) : x \in NestedDeclarations}
        \cup {Tagged(Str("arrayset"), <<KV("elements", Obj(<<KV("x", Fn("Number"))>>)),
                                        KV("keyField", Str("x")),
                                        KV("keySchemas", Obj(<<KV("k", x)>>))>>) :
                x \in NestedDeclarations}
        \cup {Tagged(Str("or"), <<KV("alternatives", Arr(<<Fn("String"), x>>))>>) :
                x \in NestedDeclarations}
Definitions == LeafDeclarations \cup ContainerDeclarations

InitS ==
    /\ definition \in Definitions
    /\ factory = NewSchemaFactory
    /\ registrations = CoreSchemaTypes \o GeoSchemaTypes
    /\ built = NotBuilt
    /\ pathParts = <<>>
    /\ newValue = Undef
    /\ schemaData = NoSchema
    /\ value = Undef
    /\ options = DefaultOptions
    /\ op = "none"
    /\ result = NoResult
    /\ match = NoMatch
    /\ normalized = FALSE
    /\ input = Undef
    /\ handlers = NoHandlers
    /\ calls = <<>>
    /\ tasks = <<>>
    /\ pending = {}
    /\ acalls = <<>>
\* what the construction of a Schema leaves alone
engine == <<schemaData, value, result, match, normalized, input, options, walk, access>>

\* factory.registerType(name, new SchemaTypePrimitive(name, shorthands))
RegisterPlugin ==
    /\ built.state = "none"
    /\ Len(registrations) < Len(CoreSchemaTypes) + Len(GeoSchemaTypes) + MaxPlugins
    /\ \E name \in PluginNames, shorthands \in PluginShorthands :
        /\ factory' = RegisterType(factory, name, SchemaTypeInstance("primitive", shorthands))
        /\ registrations' = Append(registrations,
                                TypeEntry(name, SchemaTypeInstance("primitive", shorthands)))
    /\ op' = "registerType"
    /\ UNCHANGED <<definition, built, engine>>
\* factory.createSchema(definition): the constructor normalizes the definition
CreateSchema ==
    /\ built.state = "none"
    /\ \E r \in {NormalizeSubschema(definition, factory)} :
        built' = IF r.exc # ""
                 THEN [state |-> "failed", data |-> Undef, exc |-> r.exc, skipNormalize |-> FALSE]
                 ELSE [state |-> "built", data |-> r.v, exc |-> "", skipNormalize |-> FALSE]
    /\ op' = "createSchema"
    /\ UNCHANGED <<factory, registrations, definition, engine>>
\* factory.createSchema(definition, { skipNormalize: true })
CreateSchemaSkipNormalize ==
    /\ built.state = "none"
    /\ built' = [state |-> "built", data |-> definition, exc |-> "", skipNormalize |-> TRUE]
    /\ op' = "createSchema"
    /\ UNCHANGED <<factory, registrations, definition, engine>>
\* schema.normalizeSchema() on a Schema that exists
NormalizeSchema ==
    /\ built.state = "built"
    /\ \E r \in {NormalizeSubschema(built.data, factory)} :
        built' = [built EXCEPT !.data = r.v, !.exc = r.exc]
    /\ op' = "normalizeSchema"
    /\ UNCHANGED <<factory, registrations, definition, engine>>

NextS == RegisterPlugin \/ CreateSchema \/ CreateSchemaSkipNormalize \/ NormalizeSchema

SpecSchema == InitS /\ [][NextS]_vars
(***************************************************************************)
(* Properties of schema normalization.                                     *)
(***************************************************************************)
\* a registration is in force while no later one was made under its name
InForce(i) ==
    \A j \in (i + 1)..Len(registrations) : registrations[j].name # registrations[i].name
\* a name the factory has a type for
Registered(name) == \E i \in 1..Len(factory) : factory[i].name = name
\* an un-tagged declaration: not a type name, and not a node tagged with one
IsUntagged(d) == d.t # "string" /\ ~(IsPlainObject(d) /\ GetProp(d, "type").t = "string")
\* the shorthand it is resolved by: the type value of a tagged node, else itself
ShorthandOf(d) ==
    IF IsPlainObject(d) /\ Truthy(GetProp(d, "type")) THEN GetProp(d, "type") ELSE d
\* the registrations in force whose type accepts the declaration's shorthand
Claimants(d) ==
    {i \in 1..Len(registrations) :
        InForce(i) /\ MatchShorthandType(registrations[i].type, ShorthandOf(d))}
FirstClaimant(d) == CHOOSE i \in Claimants(d) : \A j \in Claimants(d) : i <= j

\* C13: an un-tagged shorthand declaration (a bare value, or the type value of a
\* tagged node) resolves to the first type in registration order, core types before
\* the caller's, whose matchShorthandType accepts it; a later claimant is never
\* chosen, and when no type accepts it normalization fails with SchemaError
C13_FirstRegisteredClaimantWins ==
    (op = "createSchema" /\ ~built.skipNormalize /\ IsUntagged(definition)) =>
        IF Claimants(definition) = {}
        THEN built.state = "failed" /\ built.exc = "SchemaError"
        ELSE built.state = "built" =>
                GetProp(built.data, "type") = Str(registrations[FirstClaimant(definition)].name)

\* C14: schema normalization is idempotent: normalizeSchema on a Schema whose data
\* is the canonical tree a normalization produced succeeds and leaves a tree
\* identical to it
C14_NormalizeSchemaIdempotent ==
    [][(/\ built.state = "built" /\ ~built.skipNormalize /\ built.exc = ""
        /\ op' = "normalizeSchema")
            => (built'.exc = "" /\ built'.data = built.data)]_vars
\* normalizeSchema ran again on a Schema whose definition normalization had rewritten
C14_Witness ==
    /\ op = "normalizeSchema" /\ built.state = "built" /\ ~built.skipNormalize
    /\ built.exc = ""
    /\ definition = Obj(<<KV("a", Tagged(Str("date"),
                        <<KV("min", Str("1970-01-01")), KV("max", Num(MaxNum))>>))>>)
    /\ built.data # definition

RECURSIVE IsCanonical(_)
\* the node is canonical, and so is every node under it
IsCanonical(node) ==
    /\ IsPlainObject(node)
    /\ GetProp(node, "type").t = "string"
    /\ Registered(GetProp(node, "type").s)
    /\ GetProp(node, "type").s = "object" =>
            /\ IsPlainObject(GetProp(node, "properties"))
            /\ \A i \in 1..Len(GetProp(node, "properties").e) :
                    IsCanonical(GetProp(node, "properties").e[i].v)
    /\ GetProp(node, "type").s \in {"array", "arrayset"} => IsCanonical(GetProp(node, "elements"))
    /\ GetProp(node, "type").s = "map" => IsCanonical(GetProp(node, "values"))
    /\ (GetProp(node, "type").s \in {"arrayset", "map"} /\ HasKey(node, "keySchemas")) =>
            \A i \in 1..Len(GetProp(node, "keySchemas").e) :
                IsCanonical(GetProp(node, "keySchemas").e[i].v)
    /\ GetProp(node, "type").s = "or" =>
            /\ IsArray(GetProp(node, "alternatives"))
            /\ \A i \in 1..Len(GetProp(node, "alternatives").a) :
                    IsCanonical(GetProp(node, "alternatives").a[i])

\* C15: after a Schema is constructed without skipNormalize every node reachable
\* from the root (object properties, array and array-set elements, map values,
\* keySchemas entries, alternatives) is canonical: it carries a string type naming a
\* registered type, object nodes carry a properties map, array nodes an elements
\* node, and no shorthand is left in the tree
C15_BuiltSchemaCanonical ==
    (built.state = "built" /\ ~built.skipNormalize) => IsCanonical(built.data)
\* a Schema was built of a shorthand declaration that nests shorthand declarations
C15_Witness ==
    /\ op = "createSchema" /\ built.state = "built" /\ ~built.skipNormalize
    /\ definition = Obj(<<KV("a", Arr(<<Fn("Date")>>)), KV("b", Arr(<<Fn("String")>>))>>)
    /\ IsCanonical(built.data)

\* the type name a written node resolves to: its type name, or the name of the
\* type the scan finds for its shorthand type; "" when there is none
ResolvedName(d) ==
    IF GetProp(d, "type").t = "string" THEN GetProp(d, "type").s
    ELSE IF ScanSchemaTypes(factory, GetProp(d, "type")) = 0 THEN ""
    ELSE factory[ScanSchemaTypes(factory, GetProp(d, "type"))].name
\* the node is malformed by itself
MalformedNode(d) ==
    \/ d.t = "string" /\ ~Registered(d.s)
    \/ /\ IsPlainObject(d) /\ GetProp(d, "type").t = "string"
       /\ \/ ~Registered(GetProp(d, "type").s)
          \/ GetProp(d, "type").s = "object" /\ ~IsPlainObject(GetProp(d, "properties"))
          \/ GetProp(d, "type").s \in {"array", "arrayset"} /\ ~HasKey(d, "elements")
          \/ GetProp(d, "type").s = "map" /\ ~HasKey(d, "values")
          \/ /\ GetProp(d, "type").s = "or"
             /\ \/ ~IsArray(GetProp(d, "alternatives"))
                \/ Len(GetProp(d, "alternatives").a) < 2
    \/ /\ IsPlainObject(d) /\ Truthy(GetProp(d, "type"))
       /\ \E bound \in {"min", "max"} :
            /\ HasKey(d, bound)
            /\ \/ ResolvedName(d) = "number" /\ GetProp(d, bound).t # "number"
               \/ ResolvedName(d) = "date" /\ ToDate(GetProp(d, bound)) = Null
\* the declarations written directly inside a declaration
Parts(d) ==
    IF IsArray(d) THEN {d.a[i] : i \in 1..Len(d.a)}
    ELSE IF ~IsPlainObject(d) THEN {}
    ELSE IF ~Truthy(GetProp(d, "type")) THEN {d.e[i].v : i \in 1..Len(d.e)}
    ELSE {GetProp(d, slot) : slot \in {s \in {"elements", "values"} : HasKey(d, s)}}
            \cup UNION {{GetProp(d, slot).e[i].v : i \in 1..Len(GetProp(d, slot).e)} :
                        slot \in {s \in {"properties", "keySchemas"} :
                                    IsPlainObject(GetProp(d, s))}}
            \cup (IF IsArray(GetProp(d, "alternatives"))
                  THEN {GetProp(d, "alternatives").a[i] :
                            i \in 1..Len(GetProp(d, "alternatives").a)}
                  ELSE {})
RECURSIVE HasMalformed(_)
\* the declaration, or one written inside it, is malformed
HasMalformed(d) == MalformedNode(d) \/ \E part \in Parts(d) : HasMalformed(part)

\* C16: building a Schema from a malformed definition fails with SchemaError and
\* produces no Schema: an object node without a properties map, an array or
\* array-set node without elements, a map node without values, an unknown type
\* name, an or node with fewer than two alternatives, a malformed min / max bound
C16_MalformedDefinitionRejected ==
    (op = "createSchema" /\ ~built.skipNormalize /\ HasMalformed(definition)) =>
        built.state = "failed" /\ built.exc = "SchemaError"
(***************************************************************************)
(* Properties of the boolean type's checkTypeMatch.                        *)
(***************************************************************************)
\* the score the boolean type's checkTypeMatch is to give a value
BooleanScore(v) ==
    IF v.t = "boolean" THEN 3
    ELSE IF v = Num(0) \/ v = Num(1) THEN 2
    ELSE IF v.t = "string" /\ ToLowerCase(v.s) \in (FalseStringSet \cup TrueStringSet) THEN 2
    ELSE 0
\* the boolean alternatives of the or schema matched
BooleanAlternatives == {i \in Alternatives : schemaData.alternatives[i].type = "boolean"}

\* C29: the boolean type's checkTypeMatch is total: 3 for true / false, 2 for 0, 1
\* and the true / false vocabulary strings in any case, 0 for every other value
\* (other numbers, null, objects, arrays), and it never throws
C29_BooleanCheckTypeMatchTotal ==
    op = "match" =>
        \A i \in BooleanAlternatives :
            /\ ScoreOf(i) = BooleanScore(input)
            /\ match.exc # "TypeError"
(***************************************************************************)
(* Properties of the Validator's and the Normalizer's exception handling.  *)
(***************************************************************************)
\* the calls of inline refinements made during the last validate / normalize
RefinementCalls == {i \in DOMAIN result.log : result.log[i].h \in {"validate", "normalize"}}
\* the field error a refinement's FieldError is to leave behind
Stamped(i) == FieldError("custom", result.log[i].field)
\* the errors recorded for the fields visited after call i
ErrorsAfter(i) ==
    {e \in DOMAIN result.errs :
        \E j \in DOMAIN result.log : j > i /\ result.log[j].field = result.errs[e].field
                                          /\ result.log[j].field # result.log[i].field}

NewEmptyContainerNone(subschema) == Undef
\* subschemaType.newEmptyContainer(null, subschema): Undef when the type has none
NewEmptyContainer(subschema) ==
    CASE subschema.type \in {"object", "map"} -> Obj(<<>>)
      [] subschema.type \in {"array", "arrayset"} -> Arr(<<>>)
      [] OTHER -> Undef
\* subschemaType.getFieldValueSubschema(value, subschema, field)
GetFieldValueSubschema(v, subschema, field) == GetFieldSubschema(subschema, field)
\* where the subfield lives in the container, so that a change made through the
\* reference getValueSubfield gave is seen in the container
PutBack(v, subschema, field, subvalue) ==
    IF subschema.type = "arrayset"
    THEN Arr([v.a EXCEPT ![ElementIndex(v, subschema, field)] = subvalue])
    ELSE SetProp(v, field, subvalue)

RECURSIVE GetObjPathSubschemaValue(_, _, _, _)
\* Schema._getObjPathSubschemaValue (partsIdx counts from 1)
GetObjPathSubschemaValue(v, subschema, parts, partsIdx) ==
    IF partsIdx > Len(parts) THEN v
    ELSE IF IsMissing(v) THEN Undef
    ELSE IF subschema = NoSchema
    THEN (IF ~Truthy(v) THEN v ELSE GetProp(v, parts[partsIdx]))
    ELSE IF ~DefaultIsContainer(subschema.type) THEN Undef
    ELSE GetObjPathSubschemaValue(GetValueSubfield(v, subschema, parts[partsIdx]),
                                  GetFieldValueSubschema(v, subschema, parts[partsIdx]),
                                  parts, partsIdx + 1)
RECURSIVE SetObjPathSubschemaValue(_, _, _, _, _)
\* Schema._setObjPathSubschemaValue: [v, exc], the container afterwards and what was
\* thrown; a property assignment to a primitive is a TypeError in a module
SetObjPathSubschemaValue(v, subschema, parts, partsIdx, fieldValue) ==
    LET part == parts[partsIdx]
        subsubschema == GetFieldValueSubschema(v, subschema, part)
        subvalue == GetValueSubfield(v, subschema, part)
        Thrown0(exc) == [v |-> v, exc |-> exc]
    IN IF IsMissing(v) THEN Thrown0("Error")
       ELSE IF partsIdx > Len(parts) THEN Thrown0("Error")
       ELSE IF subschema = NoSchema THEN Thrown0("Error")
       ELSE IF ~DefaultIsContainer(subschema.type) THEN Thrown0("Error")
       ELSE IF ~IsObjectLike(v) THEN Thrown0("TypeError")
       ELSE IF partsIdx = Len(parts)
       THEN [v |-> SetValueSubfield(v, subschema, part, fieldValue), exc |-> ""]
       ELSE IF subsubschema = NoSchema THEN Thrown0("Error")
       ELSE IF IsMissing(subvalue) /\ NewEmptyContainer(subsubschema) = Undef
       THEN Thrown0("Error")
       ELSE LET created == IF IsMissing(subvalue)
                           THEN SetValueSubfield(v, subschema, part,
                                                 NewEmptyContainer(subsubschema))
                           ELSE v
                sub == IF IsMissing(subvalue) THEN NewEmptyContainer(subsubschema)
                       ELSE subvalue
                at == IF subschema.type = "arrayset" /\ ElementIndex(v, subschema, part) = 0
                      THEN Len(created.a) ELSE 0
                r == SetObjPathSubschemaValue(sub, subsubschema, parts, partsIdx + 1,
                                              fieldValue)
            IN [v |-> IF at # 0 THEN Arr([created.a EXCEPT ![at] = r.v])
                      ELSE PutBack(created, subschema, part, r.v),
                exc |-> r.exc]

\* the schemas and objects a caller of getObjectPath / setObjectPath holds
Nested == ObjectNode(<<Prop("foo", ObjectNode(<<Prop("bar", ObjectNode(<<Prop("baz", StringType)>>))>>))>>)
Listed == ObjectNode(<<Prop("arr", ArrayNode(ObjectNode(<<Prop("foo", StringType)>>)))>>)
Mapped == MapNode(MapNode(NumberType))
Keyed == ObjectNode(<<Prop("set", ArraySetNode(ObjectNode(<<Prop("a", StringType), Prop("x", NumberType)>>), Str("a")))>>)
Plain == ObjectNode(<<Prop("set", ArraySetNode(NumberType, Undef))>>)
PathCases ==
    {[schema |-> Nested, obj |-> o, path |-> <<"foo", "bar", "baz">>] :
        o \in {Obj(<<>>), Obj(<<KV("foo", Obj(<<>>))>>), Obj(<<KV("foo", Null)>>),
               Obj(<<KV("foo", Str("a"))>>),
               Obj(<<KV("foo", Obj(<<KV("bar", Obj(<<KV("baz", Str("a"))>>))>>))>>)}}
    \cup {[schema |-> Nested, obj |-> Obj(<<KV("foo", Obj(<<KV("bar", Num(1))>>))>>), path |-> p] :
        p \in {<<"foo">>, <<"foo", "bar">>, <<"foo", "qux">>}}
    \cup {[schema |-> Listed, obj |-> o, path |-> p] :
        o \in {Obj(<<>>), Obj(<<KV("arr", Arr(<<Obj(<<KV("foo", Str("a"))>>)>>))>>)},
        p \in {<<"arr", "0", "foo">>, <<"arr", "1", "foo">>, <<"arr", "0">>}}
    \cup {[schema |-> Mapped, obj |-> o, path |-> p] :
        o \in {Obj(<<>>), Obj(<<KV("k", Obj(<<KV("j", Num(1))>>))>>)},
        p \in {<<"k", "j">>, <<"k", "i">>, <<"k">>}}
    \cup {[schema |-> Keyed, obj |-> o, path |-> p] :
        o \in {Obj(<<>>), Obj(<<KV("set", Arr(<<>>))>>),
               Obj(<<KV("set", Arr(<<Obj(<<KV("a", Str("a")), KV("x", Num(1))>>)>>))>>)},
        p \in {<<"set", "a">>, <<"set", "b">>, <<"set", "a", "x">>, <<"set", "b", "x">>,
               <<"set", "b", "a">>}}
    \cup {[schema |-> Plain, obj |-> o, path |-> p] :
        o \in {Obj(<<>>), Obj(<<KV("set", Arr(<<Num(1)>>))>>)},
        p \in {<<"set", "1">>, <<"set", "2">>}}
\* the values a caller sets
NewValues ==
    {Undef, Null, Str("a"), Str("b"), Num(1), Num(2), Obj(<<>>),
     Obj(<<KV("a", Str("a"))>>), Obj(<<KV("a", Str("b")), KV("x", Num(2))>>),
     Obj(<<KV("foo", Str("b"))>>), Obj(<<KV("j", Num(2))>>)}

InitP ==
    /\ \E c \in PathCases : schemaData = c.schema /\ value = c.obj /\ pathParts = c.path
    /\ newValue \in NewValues
    /\ options = DefaultOptions
    /\ op = "none"
    /\ result = NoResult
    /\ match = NoMatch
    /\ normalized = FALSE
    /\ input = Undef
    /\ handlers = NoHandlers
    /\ calls = <<>>
    /\ tasks = <<>>
    /\ pending = {}
    /\ acalls = <<>>
    /\ factory = NewSchemaFactory
    /\ registrations = CoreSchemaTypes \o GeoSchemaTypes
    /\ definition = Undef
    /\ built = NotBuilt

\* schema.setObjectPath(obj, path, newValue)
SetObjectPath ==
    /\ op = "none"
    /\ op' = "setObjectPath"
    /\ input' = value
    /\ \E r \in {SetObjPathSubschemaValue(value, schemaData, pathParts, 1, newValue)} :
            /\ value' = r.v
            /\ result' = [NoResult EXCEPT !.outcome = IF r.exc = "" THEN "ok" ELSE r.exc]
    /\ UNCHANGED <<schemaData, match, normalized, options, walk, construction, access>>

\* schema.getObjectPath(obj, path)
GetObjectPath ==
    /\ op \in {"none", "setObjectPath"}
    /\ op' = "getObjectPath"
    /\ result' = [NoResult EXCEPT !.outcome = "ok",
                                  !.v = GetObjPathSubschemaValue(value, schemaData, pathParts, 1)]
    /\ UNCHANGED <<schemaData, value, input, match, normalized, options, walk, construction,
                   access>>

NextP == SetObjectPath \/ GetObjectPath

SpecPath == InitP /\ [][NextP]_vars
(***************************************************************************)
(* Properties of getObjectPath / setObjectPath.                            *)
(***************************************************************************)
RECURSIVE NodeAt(_, _, _)
\* the schema node holding path component i (NoSchema when the path leaves the schema)
NodeAt(subschema, parts, i) ==
    IF i = 1 \/ subschema = NoSchema THEN subschema
    ELSE GetFieldSubschema(NodeAt(subschema, parts, i - 1), parts[i - 1])
\* every component of the path addresses a subfield of a container node of the schema
Addressed ==
    \A i \in 1..Len(pathParts) :
        /\ NodeAt(schemaData, pathParts, i) # NoSchema
        /\ DefaultIsContainer(NodeAt(schemaData, pathParts, i).type)
        /\ GetFieldSubschema(NodeAt(schemaData, pathParts, i), pathParts[i]) # NoSchema
\* the value the object held at the first i components of the path
Held(obj, i) == GetObjPathSubschemaValue(obj, schemaData, SubSeq(pathParts, 1, i), 1)
\* what the object already holds where the path goes through is a container
ContainersAlong(obj) ==
    \A i \in 0..(Len(pathParts) - 1) : IsMissing(Held(obj, i)) \/ IsObjectLike(Held(obj, i))
\* an array-set component is the key of what is found there: the last component is
\* the key of the value set, an earlier one names an element that was there before
\* the call and keeps its place under that key
KeysAgree(before, after) ==
    \A i \in 1..Len(pathParts) :
        NodeAt(schemaData, pathParts, i).type = "arrayset" =>
            IF i = Len(pathParts)
            THEN GetElementKey(newValue, NodeAt(schemaData, pathParts, i)) = Str(pathParts[i])
            ELSE /\ IsArray(Held(before, i - 1))
                 /\ ElementIndex(Held(before, i - 1), NodeAt(schemaData, pathParts, i),
                                 pathParts[i]) # 0
                 /\ ElementIndex(Held(after, i - 1), NodeAt(schemaData, pathParts, i),
                                 pathParts[i])
                        = ElementIndex(Held(before, i - 1), NodeAt(schemaData, pathParts, i),
                                       pathParts[i])
\* getObjectPath is called right after setObjectPath
GetAfterSet == op = "setObjectPath" /\ op' = "getObjectPath"

C23_MatchLeavesValueUntouched ==
    op = "match" => value = input
(***************************************************************************)
(* Properties of postField.                                                *)
(***************************************************************************)
\* the onField invocations before log[j] made for the same node as log[j]
Opening(log, j) ==
    {i \in 1..(j - 1) : /\ log[i].h = "onField"
                        /\ log[i].field = log[j].field
                        /\ log[i].subschema = log[j].subschema}
\* the descent _transformSubschemaValue makes between onField and postField, from
\* what onField returned (ret)
DescentFrom(ret, subschema, field) ==
    IF IsMissing(ret) THEN [v |-> ret, acc |-> EmptyAcc]
    ELSE TypeTransform(ret, subschema, field, handlers, EmptyAcc)
\* the postField invocations for the same node as log[j]
Closings(log, j) ==
    {k \in 1..Len(log) : /\ log[k].h = "postField"
                         /\ log[k].field = log[j].field
                         /\ log[k].subschema = log[j].subschema}
\* the first postField invocation after log[j] for the container that holds its field
ParentClosings(log, j) ==
    {p \in (j + 1)..Len(log) : /\ log[p].h = "postField"
                               /\ log[p].subschema.type \in {"object", "array", "map"}
                               /\ IsChildPath(log[p].field, log[j].field)}
Earliest(S) == CHOOSE i \in S : \A j \in S : i <= j
KeyUnder(p, q) == CHOOSE k \in WalkKeys : q = JoinPath(p, k)
\* what the caller's postField returned for the invocation e
PostReturned(e) == UserReturn(BehaviourAt(handlers.post, e.field), e.value, handlers.repl)

\* the postField invocation log[j] of transform comes after its node's onField and
\* the whole descent, is given the container the descent left, and what it returns
\* is what the parent container (or the caller, at the root) ends up holding
PostFieldLast(log, j) ==
    /\ handlers.onField =>
        /\ Opening(log, j) # {}
        /\ SubSeq(log, Latest(Opening(log, j)) + 1, j - 1)
              = DescentFrom(Returned(log[Latest(Opening(log, j))]),
                            log[j].subschema, log[j].field).acc.log
        /\ log[j].value = DescentFrom(Returned(log[Latest(Opening(log, j))]),
                                      log[j].subschema, log[j].field).v
    /\ Cardinality(Closings(log, j)) = 1 =>
        \A k \in 1..Len(log) : StrictlyUnder(log[j].field, log[k].field) => k < j
    /\ ParentClosings(log, j) # {} =>
        GetValueSubfield(log[Earliest(ParentClosings(log, j))].value,
                         log[Earliest(ParentClosings(log, j))].subschema,
                         KeyUnder(log[Earliest(ParentClosings(log, j))].field, log[j].field))
            = PostReturned(log[j])

\* the children of the task id in the order transformAsync went through them
Children(id) == [n \in 1..Len(tasks[id].todo) |-> tasks[Append(id, n)]]
\* what the task's onField step left as the value to descend into
AfterOnField(t) ==
    IF handlers.onField
    THEN UserReturn(BehaviourAt(handlers.on, t.field), t.value, handlers.repl)
    ELSE t.value
\* the container of the task id as its children's transforms left it
Assembled(id) ==
    LET t == tasks[id]
        ret == AfterOnField(t)
    IN IF IsStopTransform(ret) THEN (IF ret.setNewValue THEN ret.newValue ELSE t.value)
       ELSE IF IsMissing(ret) THEN ret
       ELSE IF t.subschema.type = "or" THEN tasks[Append(id, 1)].newValue
       ELSE IF t.subschema.type = "arrayset" /\ IsArray(ret)
       THEN Arr(RemoveArrayUndefinedValues(
                    [n \in 1..Len(t.todo) |-> Children(id)[n].newValue]))
       ELSE SetValueSubfieldBatch(ret, t.subschema,
                [n \in 1..Len(t.todo) |-> KV(t.todo[n].k, Children(id)[n].newValue)])
\* the postField invocations of transformAsync made for the task t
PostCalls(t) ==
    {j \in 1..Len(acalls) : /\ acalls[j].h = "postField"
                            /\ acalls[j].field = t.field
                            /\ acalls[j].subschema = t.subschema}

\* C24: in transform and in transformAsync postField of a field is invoked after the
\* field's onField and after every handler of every descendant has completed, it is
\* given the container as the children's transforms left it, and what it returns is
\* the field's final value
C24_PostFieldAfterDescent ==
    /\ op = "transform" =>
        /\ \A j \in 1..Len(calls) : calls[j].h = "postField" => PostFieldLast(calls, j)
        /\ (result.outcome = "ok" /\ handlers.postField /\ ~Stops("")) =>
            /\ calls # <<>>
            /\ calls[Len(calls)].h = "postField" /\ calls[Len(calls)].field = ""
            /\ result.v = PostReturned(calls[Len(calls)])
    /\ op = "transformAsync" =>
        /\ \A id \in pending :
            tasks[id].st = "postField" =>
                /\ \A d \in DOMAIN tasks : (IsPrefix(id, d) /\ d # id) => Settled(tasks[d])
                /\ handlers.onField =>
                    \E i \in 1..Len(acalls) :
                        acalls[i] = Invocation("onField", tasks[id].field, tasks[id].value,
                                               tasks[id].subschema)
                /\ acalls[Len(acalls)] = Invocation("postField", tasks[id].field,
                                                    Assembled(id), tasks[id].subschema)
        /\ \A id \in DOMAIN tasks :
            (tasks[id].st = "done" /\ handlers.postField /\ tasks[id].subschema # NoSchema) =>
                \E j \in PostCalls(tasks[id]) : tasks[id].newValue = PostReturned(acalls[j])
\* postField replaced a container whose children had been transformed, in transform
\* and in transformAsync
C24_Witness ==
    /\ op = "transformAsync" /\ tasks[<<>>].st = "done"
    /\ \E j \in 1..Len(calls), i \in 1..Len(calls), k \in 1..Len(calls) :
        /\ i < k /\ k < j
        /\ calls[j].h = "postField" /\ calls[i].h = "onField"
        /\ calls[i].field = calls[j].field
        /\ StrictlyUnder(calls[j].field, calls[k].field)
        /\ calls[j].value # calls[i].value
        /\ PostReturned(calls[j]) # calls[j].value
    /\ \E j \in 1..Len(acalls), k \in 1..Len(acalls) :
        /\ k < j
        /\ acalls[j].h = "postField"
        /\ StrictlyUnder(acalls[j].field, acalls[k].field)
        /\ PostReturned(acalls[j]) # acalls[j].value
(***************************************************************************)
(* Properties of the write-back of a child's new value.                    *)
(***************************************************************************)
\* the setValueSubfield calls transform made
Setters == {n \in 1..Len(result.sets) : TRUE}
\* the onField invocation calls[i] is for a subfield of an object, array or map
\* container: the invocation of that container's onField
Holder(i) == Latest(Governing(calls, i))
IsHeld(i) ==
    /\ calls[i].h = "onField"
    /\ Governing(calls, i) # {}
    /\ calls[Holder(i)].subschema.type \in {"object", "array", "map"}
    /\ IsChildPath(calls[Holder(i)].field, calls[i].field)
\* the setter calls that write the field of calls[i] into its container
SettersOf(i) ==
    {n \in Setters : /\ result.sets[n].field = calls[Holder(i)].field
                     /\ JoinPath(result.sets[n].field, result.sets[n].k) = calls[i].field}
\* calls[k] is made for the field f or for a descendant of it
Within(f, k) == calls[k].field = f \/ StrictlyUnder(f, calls[k].field)
\* the last invocation made for the field of calls[i] or below it before the setter
\* call n
LastWithin(i, n) == Latest({k \in i..result.sets[n].at : Within(calls[i].field, k)})

IsElementCall(log, j) ==
    /\ log[j].h = "onField"
    /\ Governing(log, j) # {}
    /\ log[Latest(Governing(log, j))].subschema.type = "arrayset"
    /\ IsChildPath(log[Latest(Governing(log, j))].field, log[j].field)
\* no two onField invocations of the log are for the same key of the same array set
KeysVisitedOnce(log) ==
    \A j \in 1..Len(log), k \in 1..Len(log) :
        (j < k /\ IsElementCall(log, j) /\ IsElementCall(log, k)
               /\ Latest(Governing(log, j)) = Latest(Governing(log, k)))
            => log[j].field # log[k].field

\* C26: when traverse, transform or transformAsync descends into an array set,
\* onField is invoked once per distinct element key: an element whose key an earlier
\* element of the array has is not visited on its own
C26_ArraySetKeysVisitedOnce ==
    /\ op \in {"traverse", "transform"} => KeysVisitedOnce(calls)
    /\ op = "transformAsync" => KeysVisitedOnce(acalls)

\* the array a walk over an array set schema ended with
IsKeyUnique(v, subschema) == IsArray(v) => ~HasDuplicateKeys(v.a, subschema)

\* C27: once transform or transformAsync has gone through the elements of an array
\* set, the array holds one element per distinct computed key
C27_ArraySetCompacted ==
    schemaData.type = "arrayset" =>
        /\ (op = "transform" /\ result.outcome = "ok") => IsKeyUnique(result.v, schemaData)
        /\ (op = "transformAsync" /\ tasks[<<>>].st = "done") =>
                IsKeyUnique(tasks[<<>>].newValue, schemaData)
(***************************************************************************)
(* Array sets and maps with per-key subschemas: the walks, validate and    *)
(* normalize over them, and setSubschemaOption creating an override.       *)
(***************************************************************************)
WithKeySchemas(subschema, keySchemas) == [subschema EXCEPT !.keySchemas = keySchemas]
KeyedMaps ==
    {MapNode(NumberType), WithKeySchemas(MapNode(NumberType), <<Prop("a", StringType)>>)}
KeyedArraySets ==
    {ArraySetNode(NumberType, Undef),
     WithKeySchemas(ArraySetNode(NumberType, Undef), <<Prop("1", StringType)>>)}
EntryValues == {Num(1), Num(MaxNum), Str("a")}
KeyedMapValues == {Obj(<<KV("a", x), KV("b", y)>>) : x \in EntryValues, y \in EntryValues}
KeyedArraySetValues ==
    {Arr(<<x, y>>) : x \in EntryValues, y \in EntryValues} \ {Arr(<<x, x>>) : x \in EntryValues}
\* the keys setSubschemaOption is called with
OverrideKeys == {"$", "a", "b", "1"}
\* a caller's handlers that look at every field and change nothing
Observer ==
    [NoHandlers EXCEPT !.onField = TRUE, !.onSubschema = TRUE]

InitK ==
    /\ \/ schemaData \in KeyedMaps /\ value \in KeyedMapValues
       \/ schemaData \in KeyedArraySets /\ value \in KeyedArraySetValues
    /\ handlers = Observer
    /\ options = DefaultOptions
    /\ op = "none"
    /\ result = NoResult
    /\ match = NoMatch
    /\ normalized = FALSE
    /\ input = Undef
    /\ calls = <<>>
    /\ tasks = <<>>
    /\ pending = {}
    /\ acalls = <<>>
    /\ factory = NewSchemaFactory
    /\ registrations = CoreSchemaTypes \o GeoSchemaTypes
    /\ definition = Undef
    /\ built = NotBuilt
    /\ pathParts = <<>>
    /\ newValue = Undef

\* schema.setSubschemaOption(key, 'min', n) before the schema is used
SetSubschemaOption ==
    /\ op = "none"
    /\ Len(schemaData.keySchemas) <= 1
    /\ \E k \in OverrideKeys :
        schemaData' = SetSubschemaOptionAt(schemaData, k, "min", Num(MaxNum))
    /\ UNCHANGED <<value, op, result, match, normalized, input, options, walk,
                   construction, access>>

NextK == SetSubschemaOption \/ Traverse \/ Transform \/ Validate \/ Normalize

SpecKeyed == InitK /\ [][NextK]_vars

\* the handler the engine runs for an entry during validate / normalize reports an
\* error for the value v under the subschema
Rejects(subschema, k, v) ==
    IF op = "validate"
    THEN ValidatorOnField(ValidatorHandlers(options), k, v, subschema, EmptyAcc).acc.errs # <<>>
    ELSE NormalizerOnField(NormalizerHandlers(options), k, v, subschema, EmptyAcc).acc.errs # <<>>
Reported(k) == \E i \in 1..Len(result.errs) : result.errs[i].field = k
\* the entries of the value the operation was given
EntriesOf(v) == {Subfields(v, schemaData, "")[n] : n \in 1..Len(Subfields(v, schemaData, ""))}
\* a walk handed every entry the subschema getFieldSubschema gives for its key: the
\* override when there is one, the shared subschema otherwise
WalkUsesOverrides ==
    op \in {"traverse", "transform"} =>
        \A j \in 1..Len(calls) :
            calls[j].field # "" =>
                calls[j].subschema = GetFieldSubschema(schemaData, calls[j].field)
\* validate / normalize judged every entry by the subschema for its key
ChecksUseOverrides ==
    op \in {"validate", "normalize"} =>
        \A e \in EntriesOf(input) :
            Reported(e.k) = Rejects(GetFieldSubschema(schemaData, e.k), e.k, e.v)
\* creating an override for a key leaves the shared subschema and the overrides of
\* the other keys as they were, and the new override starts as the shared subschema
OverrideLeavesOthers ==
    \A k \in OverrideKeys :
        /\ SharedSubschema(GetFieldSubschemaForModify(schemaData, k)) = SharedSubschema(schemaData)
        /\ \A k2 \in OverrideKeys \ {k} :
            GetFieldSubschema(GetFieldSubschemaForModify(schemaData, k), k2)
                = GetFieldSubschema(schemaData, k2)
        /\ GetFieldSubschema(GetFieldSubschemaForModify(schemaData, k), k)
                = GetFieldSubschema(schemaData, k)

\* C28: for array sets and maps, traverse, validate, normalize and transform use the
\* override subschema keySchemas[k] for the entry whose key is k and the shared
\* subschema for the entries without one, and creating an override for a key leaves
\* the shared subschema and the other overrides unchanged
C28_KeySchemasOverride ==
    WalkUsesOverrides /\ ChecksUseOverrides /\ OverrideLeavesOthers
(***************************************************************************)
(* Handlers that write to the container they are called under: transform   *)
(* and transformAsync over objects, arrays and maps.  The handlers         *)
(* enumerated write from the fields the value has.                         *)
(***************************************************************************)
Flat ==
    ObjectNode(<<Prop("a", NumberType), Prop("b", NumberType), Prop("w", NumberType)>>)
\* the walks made: a schema, a value, the paths whose onField may return something
\* else, and the writes an onField may make to its container
CaptureWalks ==
    {[schemaData |-> Flat,
      value |-> Obj(<<KV("a", Num(1)), KV("b", Num(MaxNum))>>),
      paths |-> {"a", "b"},
      touches |-> {[path |-> "a", w |-> Write("b", Num(0))],
                   [path |-> "a", w |-> Write("b", Undef)],
                   [path |-> "a", w |-> Write("w", Num(1))],
                   [path |-> "a", w |-> Write("z", Num(1))],
                   [path |-> "a", w |-> Write("a", Num(0))],
                   [path |-> "b", w |-> Write("a", Num(0))]}],
     [schemaData |-> NestedObject,
      value |-> Obj(<<KV("a", Obj(<<KV("x", Num(1)), KV("y", Str("a"))>>)), KV("b", Num(MaxNum))>>),
      paths |-> {"a.x", "a.y", "b"},
      touches |-> {[path |-> "a.x", w |-> Write("y", Str(""))],
                   [path |-> "a.x", w |-> Write("y", Undef)],
                   [path |-> "a", w |-> Write("b", Num(0))]}],
     [schemaData |-> ArrayNode(NumberType),
      value |-> Arr(<<Num(1), Num(MaxNum)>>),
      paths |-> {"0", "1"},
      touches |-> {[path |-> "0", w |-> Write("1", Num(0))],
                   [path |-> "0", w |-> Write(NumStr(MaxNum), Num(0))],
                   [path |-> "1", w |-> Write("0", Num(0))]}],
     [schemaData |-> MapNode(NumberType),
      value |-> Obj(<<KV("a", Num(1)), KV("b", Num(MaxNum))>>),
      paths |-> {"a", "b"},
      touches |-> {[path |-> "a", w |-> Write("b", Num(0))],
                   [path |-> "a", w |-> Write("b", Undef)],
                   [path |-> "a", w |-> Write("z", Num(1))]}]}
CaptureHandlers(w) ==
    {[NoHandlers EXCEPT !.onField = TRUE, !.onUnknownField = TRUE, !.repl = Num(0),
                        !.on = on, !.touch = touch] :
        on \in Tables(w.paths, {"repl", "undef"}),
        touch \in {<<>>} \cup {[p \in {t.path} |-> t.w] : t \in w.touches}}

InitC ==
    /\ \E w \in CaptureWalks :
        /\ schemaData = w.schemaData
        /\ value = w.value
        /\ handlers \in CaptureHandlers(w)
    /\ options = DefaultOptions
    /\ op = "none"
    /\ result = NoResult
    /\ match = NoMatch
    /\ normalized = FALSE
    /\ input = Undef
    /\ calls = <<>>
    /\ tasks = <<>>
    /\ pending = {}
    /\ acalls = <<>>
    /\ factory = NewSchemaFactory
    /\ registrations = CoreSchemaTypes \o GeoSchemaTypes
    /\ definition = Undef
    /\ built = NotBuilt
    /\ pathParts = <<>>
    /\ newValue = Undef

NextC ==
    \/ Transform
    \/ TransformAsync
    \/ \E id \in DOMAIN tasks : AsyncStart(id)
    \/ \E id \in DOMAIN tasks : AsyncSettle(id)
    \/ \E id \in DOMAIN tasks : AsyncCheck(id)
    \/ \E id \in DOMAIN tasks : AsyncSpawn(id)
    \/ \E id \in DOMAIN tasks : AsyncJoin(id)
    \/ \E id \in DOMAIN tasks : AsyncReturn(id)
    \/ \E id \in DOMAIN tasks : AsyncPost(id)

SpecCapture == InitC /\ [][NextC]_vars

\* log[i] is the onField invocation of a base-class container that is descended into
IsDescent(log, i) ==
    /\ log[i].h = "onField"
    /\ log[i].subschema.type \in {"object", "array", "map"}
    /\ ~IsMissing(Returned(log[i]))
    /\ Truthy(Returned(log[i]))
\* the entries the descent from log[i] captures: the subfields of what onField returned
Captured(log, i) == Subfields(Returned(log[i]), log[i].subschema, log[i].field)
\* a handler invocation as the field it is for and the value it is given
Seen(f, v) == [f |-> f, v |-> v]
\* the handler invocations made for the subfields of the container of log[i], in order
Kids(log, i) ==
    LET idx == SelectSeq([k \in 1..Len(log) |-> k],
                         LAMBDA k : /\ k > i
                                    /\ log[k].h \in {"onField", "onUnknownField"}
                                    /\ IsChildPath(log[i].field, log[k].field)
                                    /\ Latest(Governing(log, k)) = i)
    IN [n \in 1..Len(idx) |-> Seen(log[idx[n]].field, log[idx[n]].value)]
\* the invocations the captured entries call for
Due(log, i) ==
    LET vis == SelectSeq(Captured(log, i), Visitable)
    IN [n \in 1..Len(vis) |-> Seen(vis[n].f, vis[n].v)]
\* what the visit of a captured entry returns
OwnResult(item) == TransformSubschemaValue(item.v, item.s, item.f, handlers, EmptyAcc).v
\* no handler of a sibling visited after the entry n writes to the entry's key
NotOverwritten(items, n) ==
    \A m \in (n + 1)..Len(items) :
        items[m].f \in DOMAIN handlers.touch => handlers.touch[items[m].f].k # items[n].k
\* the container the walk ended with holds, for every captured key, what that key's
\* own visit returned
HoldsOwnResults(final) ==
    (IsDescent(calls, 1) /\ calls[1].field = "") =>
        \A n \in 1..Len(Captured(calls, 1)) :
            NotOverwritten(Captured(calls, 1), n) =>
                GetValueSubfield(final, schemaData, Captured(calls, 1)[n].k)
                    = OwnResult(Captured(calls, 1)[n])

\* C30: in the base-class transform and transformAsync the subfield entries are
\* captured once before the first child is visited: each child's onField is given the
\* value the container held for its key then, a write to the container by an earlier
\* sibling's handler changes neither the keys visited nor the values later siblings
\* are given, and each visited key is overwritten with the result of its own visit
C30_EntriesCapturedOnce ==
    /\ op = "transform" =>
        /\ \A i \in 1..Len(calls) :
            IsDescent(calls, i) =>
                /\ Kids(calls, i) = Due(calls, i)
                /\ \A n \in 1..Len(Captured(calls, i)) :
                    Cardinality({s \in 1..Len(result.sets) :
                        /\ result.sets[s].field = calls[i].field
                        /\ result.sets[s].k = Captured(calls, i)[n].k
                        /\ result.sets[s].v = OwnResult(Captured(calls, i)[n])}) = 1
        /\ HoldsOwnResults(result.v)
    /\ (op = "transformAsync" /\ tasks[<<>>].st = "done") =>
        /\ \A i \in 1..Len(acalls) : IsDescent(acalls, i) => Kids(acalls, i) = Due(acalls, i)
        /\ HoldsOwnResults(tasks[<<>>].newValue)
\* an earlier sibling's handler wrote to the key of a later sibling, which was still
\* given the captured value and ended with its own result, in both walks
C30_Witness ==
    /\ op = "transformAsync" /\ tasks[<<>>].st = "done"
    /\ \E i \in 1..Len(calls), j \in 1..Len(calls), k \in 1..Len(acalls) :
        /\ i < j
        /\ calls[i].field \in DOMAIN handlers.touch
        /\ calls[j].field = JoinPath("", handlers.touch[calls[i].field].k)
        /\ calls[j].value # handlers.touch[calls[i].field].v
        /\ acalls[k] = calls[j]
        /\ GetValueSubfield(result.v, schemaData, handlers.touch[calls[i].field].k)
              # handlers.touch[calls[i].field].v
        /\ GetValueSubfield(tasks[<<>>].newValue, schemaData, handlers.touch[calls[i].field].k)
              # handlers.touch[calls[i].field].v
====
